---- MODULE Spec2Model ----
(***************************************************************************)
(* A model of the clad gateway (crates/clad): the streaming emulation      *)
(* engine (proxy.rs), the provider variants (provider/*.rs), the shared    *)
(* request orchestration (provider.rs), the error mapping (proxy.rs) and   *)
(* the admission control set up in main.rs.                                *)
(*                                                                         *)
(* A Rust String is a TLA+ string; Option<T> is a sequence of length 0     *)
(* (None) or 1 (Some); serde_json::Value is a tagged record (JNull..JObj). *)
(***************************************************************************)
EXTENDS Integers, Sequences, FiniteSets, TLC

VARIABLES
    text,       \* SpecChunks: the complete response text handed to the engine
    stream,     \* SpecChunks: the stream object built by create_streaming_chunks
    emitted,    \* SpecChunks: the chunks the consumer has received, in order
    ended,      \* SpecChunks: the stream returned None (end of stream)
    timer,      \* SpecChunks: the 20 ms sleep of the step in flight
    dropped,    \* SpecChunks: Option of what was in flight when the consumer dropped the stream
    now,        \* the wall clock, in seconds
    issued,     \* number of identifiers uuid_simple has handed out
    provider,   \* config.backend.provider, the variant create_provider selected
    request,    \* SpecRequest: the inbound ChatCompletionRequest
    backend_request,   \* SpecRequest: Option of the payload transform_request built
    payload,    \* SpecResponse: the parsed body of the backend's reply
    response_result,   \* SpecResponse: Option of transform_response's Result
    text_result,       \* SpecResponse: Option of extract_streaming_text's Result
    bucket,     \* Spec: the cells left in the rate limiter's burst
    reqs,       \* Spec: the inbound requests, each with its position in the gateway
    failures,   \* SpecErrors: two AppError values
    replies,    \* SpecErrors: Option of the response into_response built for each
    args,       \* SpecCli: the arguments of the c command (env::args().skip(1))
    cli,        \* SpecCli: Option of what one run of the c command did
    boot,       \* SpecStartup: one start of clad: its environment, position and exit
    procs,      \* SpecConfig: the c processes inside ensure_goose_config_files
    disk        \* SpecConfig: the goose configuration directory they share

chunkVars == <<text, stream, emitted, ended, timer, dropped>>
requestVars == <<request, backend_request>>
responseVars == <<payload, response_result, text_result>>
gatewayVars == <<bucket, reqs>>
errorVars == <<failures, replies>>
cliVars == <<args, cli>>
startupVars == <<boot>>
configVars == <<procs, disk>>
vars == <<chunkVars, now, issued, provider, requestVars, responseVars,
          gatewayVars, errorVars, cliVars, startupVars, configVars>>

-----------------------------------------------------------------------------
(* Bounds of the model *)

MaxTextLen == 5
MaxClock == 2
MaxMessages == 3
MaxRequests == 2
RateLimitBurst == 1
MaxOrigins == 2
MaxProcs == 3
MaxArgs == 2

-----------------------------------------------------------------------------
(* Option<T> *)

None == <<>>
Some(x) == <<x>>
IsSome(o) == Len(o) = 1
Unwrap(o) == o[1]

-----------------------------------------------------------------------------
(* Texts *)

\* The text of a message, of a backend reply, of an argument or of an origin
\* is the sequence of its characters, each character the number of its
\* Unicode scalar value (0 .. 1114111). Identifiers, roles, keys and fixed
\* messages, which the code only compares and copies, stay strings.

\* The printable characters of ASCII from U+0020 to U+005F, in order
Printable ==
    " !\"#$%&'()*+,-./0123456789:;<=>?@ABCDEFGHIJKLMNOPQRSTUVWXYZ[\\]^_"

\* The printable characters of ASCII from U+0061 to U+007E, in order
PrintableLower == "abcdefghijklmnopqrstuvwxyz{|}~"

\* The scalar value of the one character of the string c
CharCode(c) ==
    IF \E i \in 1..Len(Printable) : SubSeq(Printable, i, i) = c
    THEN 31 + CHOOSE i \in 1..Len(Printable) : SubSeq(Printable, i, i) = c
    ELSE 96 + CHOOSE i \in 1..Len(PrintableLower) :
                  SubSeq(PrintableLower, i, i) = c

\* The text of a string literal of printable ASCII characters
RECURSIVE Str(_)
Str(s) ==
    IF s = "" THEN <<>>
    ELSE <<CharCode(SubSeq(s, 1, 1))>> \o Str(SubSeq(s, 2, Len(s)))

\* char::is_whitespace, the Unicode property White_Space: U+0009..U+000D,
\* U+0020, U+0085, U+00A0, U+1680, U+2000..U+200A, U+2028, U+2029, U+202F,
\* U+205F, U+3000
Whitespace ==
    (9..13) \cup {32, 133, 160, 5760} \cup (8192..8202)
    \cup {8232, 8233, 8239, 8287, 12288}

\* The alphabet of the texts explored: a, b, the space and the line feed
Chars == {97, 98, 32, 10}

\* char::len_utf8: the number of bytes of the character's UTF-8 encoding
len_utf8(c) ==
    IF c < 128 THEN 1 ELSE IF c < 2048 THEN 2 ELSE IF c < 65536 THEN 3 ELSE 4

\* str::len: the length of the text in bytes of UTF-8
RECURSIVE Utf8Len(_)
Utf8Len(t) == IF t = <<>> THEN 0 ELSE len_utf8(Head(t)) + Utf8Len(Tail(t))

RECURSIVE StringsOfLen(_)
StringsOfLen(n) ==
    IF n = 0 THEN {<<>>} ELSE {Append(s, c) : s \in StringsOfLen(n - 1), c \in Chars}

Texts == UNION {StringsOfLen(n) : n \in 0..MaxTextLen}

RECURSIVE SplitFrom(_, _, _)
SplitFrom(t, cur, acc) ==
    IF t = <<>>
    THEN IF cur = <<>> THEN acc ELSE Append(acc, cur)
    ELSE IF Head(t) \in Whitespace
         THEN SplitFrom(Tail(t), <<>>, IF cur = <<>> THEN acc ELSE Append(acc, cur))
         ELSE SplitFrom(Tail(t), Append(cur, Head(t)), acc)

\* str::split_whitespace: the maximal runs of non-whitespace characters, in order
split_whitespace(t) == SplitFrom(t, <<>>, <<>>)

-----------------------------------------------------------------------------
(* common helpers of provider.rs *)

\* uuid_simple: a version-4 UUID. The generator is taken to be ideal: the
\* k-th identifier it hands out differs from every earlier one.
uuid_simple(k) == "uuid-" \o ToString(k)

\* current_timestamp: whole seconds of the wall clock
current_timestamp(clock) == clock

-----------------------------------------------------------------------------
(* The streaming emulation engine: proxy.rs, create_streaming_chunks *)

ModelName == "m"

\* let words: Vec<String> = text.split_whitespace().map(|s| format!("{} ", s)).collect();
words_of(t) ==
    LET sw == split_whitespace(t)
    IN [k \in 1..Len(sw) |-> sw[k] \o Str(" ")]

Chunk(id, created, model, role, content, finish_reason) ==
    [id |-> id, object |-> "chat.completion.chunk", created |-> created,
     model |-> model, index |-> 0,
     role |-> role, content |-> content, finish_reason |-> finish_reason]

\* The closure's body if the first chunk carried the first word with the role
ChunkAtRoleAndWord(s, i) ==
    IF i = 0
    THEN Chunk(s.chunk_id, s.created, s.model, Some("assistant"),
               IF s.total_chunks > 0 THEN Some(s.words[1]) ELSE None, None)
    ELSE IF i < s.total_chunks
         THEN Chunk(s.chunk_id, s.created, s.model, None, Some(s.words[i + 1]), None)
         ELSE Chunk(s.chunk_id, s.created, s.model, None, None, Some("stop"))

\* The closure's body if each step read the clock for its own timestamp
ChunkAtRestamped(s, i) ==
    IF i = 0
    THEN Chunk(s.chunk_id, current_timestamp(now), s.model, Some("assistant"), None, None)
    ELSE IF i < s.total_chunks
         THEN Chunk(s.chunk_id, current_timestamp(now), s.model, None, Some(s.words[i + 1]), None)
         ELSE Chunk(s.chunk_id, current_timestamp(now), s.model, None, None, Some("stop"))

\* The closure's body for item i of stream::iter(0..=total_chunks). The Rust
\* vector is indexed from 0, the sequence from 1: words[i] is s.words[i + 1].
ChunkAt(s, i) ==
    IF i = 0
    THEN Chunk(s.chunk_id, s.created, s.model, Some("assistant"), None, None)
    ELSE IF i < s.total_chunks
         THEN Chunk(s.chunk_id, s.created, s.model, None, Some(s.words[i + 1]), None)
         ELSE Chunk(s.chunk_id, s.created, s.model, None, None, Some("stop"))

\* The last item of the exclusive range 0..total_chunks
LastItemExclusive(total_chunks) == total_chunks - 1

\* The last item of the range the stream iterates over: 0..=total_chunks
LastItem(total_chunks) == total_chunks

\* The stream object: what the closure captured, and the iterator's position
create_streaming_chunks(t, model, k, clock) ==
    LET words == words_of(t)
    IN [chunk_id |-> "chatcmpl-" \o uuid_simple(k),
        created |-> current_timestamp(clock),
        model |-> model,
        words |-> words,
        total_chunks |-> Len(words),
        pos |-> 0]

NoStream == [pos |-> -1]

-----------------------------------------------------------------------------
(* serde_json::Value *)

JNull == [t |-> "null"]
JBool(b) == [t |-> "bool", b |-> b]
JNum(n) == [t |-> "num", n |-> n]
JStr(s) == [t |-> "str", s |-> s]
\* A Value::Number that holds a finite float (N::Float); x names the real
\* number, which an f32 and the f64 it widens to share
JFloat(x) == [t |-> "float", x |-> x]
\* A Value::Number that holds the integer hi * 2^16 + lo, for the integers
\* from 2^31 on (hi >= 2^15), which JNum does not hold
JBig(hi, lo) == [t |-> "big", hi |-> hi, lo |-> lo]
JArr(a) == [t |-> "arr", a |-> a]
JObj(f) == [t |-> "obj", f |-> f]

\* An object from a set of <<key, value>> pairs with distinct keys
ObjOf(pairs) ==
    JObj([k \in {p[1] : p \in pairs} |-> (CHOOSE p \in pairs : p[1] = k)[2]])

\* Value::get(key): Some(member) of an object that has the key, else None
Get(v, key) ==
    IF v.t = "obj" /\ key \in DOMAIN v.f THEN Some(v.f[key]) ELSE None

\* Value::get(index) on an array (index from 0)
GetIdx(v, idx) ==
    IF v.t = "arr" /\ idx + 1 \in DOMAIN v.a THEN Some(v.a[idx + 1]) ELSE None

as_str(v) == IF v.t = "str" THEN Some(v.s) ELSE None
as_array(v) == IF v.t = "arr" THEN Some(v) ELSE None

\* An unsigned integer of 32 or 64 bits, held as two limbs: its value is
\* hi * 2^16 + lo with lo < 2^16 (hi < 2^16 for a u32)
Wide(hi, lo) == [hi |-> hi, lo |-> lo]
ToWide(n) == Wide(n \div 65536, n % 65536)

\* Value::as_u64: Some for an integer number in the range of u64, None for a
\* negative one, a float and every other kind of value
as_u64(v) ==
    IF v.t = "num" /\ v.n >= 0 THEN Some(ToWide(v.n))
    ELSE IF v.t = "big" THEN Some(Wide(v.hi, v.lo))
    ELSE None

\* `x as u32` of a u64 or usize: the low 32 bits
AsU32(w) == Wide(w.hi % 65536, w.lo)

\* u32 + u32, wrapping at 2^32
U32Add(a, b) ==
    Wide((a.hi + b.hi + ((a.lo + b.lo) \div 65536)) % 65536, (a.lo + b.lo) % 65536)

-----------------------------------------------------------------------------
(* Result<T, AppError> and AppError (proxy.rs) *)

Ok(v) == [ok |-> TRUE, value |-> v]
Err(e) == [ok |-> FALSE, err |-> e]

\* The String an error variant carries: its words, and the backend body that
\* format!("{:?}", ..) put into it (JNull when it quotes none)
Detail(words, quoted) == [words |-> words, quoted |-> quoted]

BackendError(detail) == [variant |-> "BackendError", detail |-> detail]
TransformError(detail) == [variant |-> "TransformError", detail |-> detail]
TimeoutError == [variant |-> "TimeoutError", detail |-> Detail("", JNull)]
InternalError(detail) == [variant |-> "InternalError", detail |-> detail]

-----------------------------------------------------------------------------
(* The wire format: openai.rs *)

\* FunctionCall and ToolCall (call_type is written "type")
FunctionCall(name, arguments) == [name |-> name, arguments |-> arguments]
ToolCall(id, call_type, function) ==
    [id |-> id, call_type |-> call_type, function |-> function]

Message(role, content, name, tool_calls) ==
    [role |-> role, content |-> content, name |-> name, tool_calls |-> tool_calls]

\* An f32 is named by the real number it holds; the values that are no real
\* number are named apart. Some(inf) is what deserialization makes of a JSON
\* number beyond the range of f32, such as 1e39.
NonFinite == {"inf", "-inf", "NaN"}

\* Tool and FunctionDefinition; parameters is a serde_json::Value
Tool(tool_type, name, description, parameters) ==
    [tool_type |-> tool_type,
     function |-> [name |-> name, description |-> description, parameters |-> parameters]]

\* The names of the struct's fields, in declaration order; extra is flattened
RequestFields ==
    <<"model", "messages", "temperature", "top_p", "n", "stream", "stop", "max_tokens",
      "presence_penalty", "frequency_penalty", "user", "tools", "tool_choice">>

\* A request with model, messages and stream; every other Option is None
\* (#[serde(default)]) and the catch-all map is empty. extra is a set of
\* <<key, value>> pairs with distinct keys.
ChatCompletionRequest(model, messages, strm) ==
    [model |-> model, messages |-> messages, stream |-> strm,
     temperature |-> <<>>, top_p |-> <<>>, n |-> <<>>, stop |-> <<>>,
     max_tokens |-> <<>>, presence_penalty |-> <<>>, frequency_penalty |-> <<>>,
     user |-> <<>>, tools |-> <<>>, tool_choice |-> <<>>, extra |-> {}]

\* The request with the fields of the record options set to its values
WithOptions(req, options) ==
    [f \in DOMAIN req |-> IF f \in DOMAIN options THEN options[f] ELSE req[f]]

-----------------------------------------------------------------------------
(* The field-remapping variant: provider/rhel_lightspeed.rs *)

\* .iter().rev().find(|m| m.role == "user"): scan from the last message down
RECURSIVE RevFindUser(_, _)
RevFindUser(messages, i) ==
    IF i = 0 THEN None
    ELSE IF messages[i].role = "user" THEN Some(messages[i])
         ELSE RevFindUser(messages, i - 1)

\* .iter().find(|m| m.role == "user"): scan from the first message up
RECURSIVE FwdFindUser(_, _)
FwdFindUser(messages, i) ==
    IF i > Len(messages) THEN None
    ELSE IF messages[i].role = "user" THEN Some(messages[i])
         ELSE FwdFindUser(messages, i + 1)

FirstUserMessage(messages) == FwdFindUser(messages, 1)
LastUserMessage(messages) == RevFindUser(messages, Len(messages))

\* The same payload with the conversation added under "context"
rhel_transform_request_context(req) ==
    LET found == LastUserMessage(req.messages)
        user_message == IF IsSome(found) THEN Unwrap(found).content ELSE Str("")
    IN ObjOf({<<"question", JStr(user_message)>>,
              <<"context", JArr([i \in DOMAIN req.messages |->
                                  ObjOf({<<"role", JStr(req.messages[i].role)>>,
                                         <<"content", JStr(req.messages[i].content)>>})])>>})

\* RhelLightspeedProvider::transform_request
rhel_transform_request(req) ==
    LET found == LastUserMessage(req.messages)
        user_message == IF IsSome(found) THEN Unwrap(found).content ELSE Str("")
    IN ObjOf({<<"question", JStr(user_message)>>})

\* The same chain ending in unwrap_or_default() instead of ok_or_else(..)
DataTextOrDefault(backend_resp) ==
    LET data == Get(backend_resp, "data")
        txt == IF IsSome(data) THEN Get(Unwrap(data), "text") ELSE None
        str == IF IsSome(txt) THEN as_str(Unwrap(txt)) ELSE None
    IN IF IsSome(str) THEN str ELSE Some(Str(""))

\* backend_resp.get("data").and_then(|v| v.get("text")).and_then(|v| v.as_str())
DataText(backend_resp) ==
    LET data == Get(backend_resp, "data")
        txt == IF IsSome(data) THEN Get(Unwrap(data), "text") ELSE None
    IN IF IsSome(txt) THEN as_str(Unwrap(txt)) ELSE None

\* usage.get(key).and_then(|v| v.as_u64()).unwrap_or(0) as u32
UsageCount(usage, key) ==
    LET v == Get(usage, key)
        n == IF IsSome(v) THEN as_u64(Unwrap(v)) ELSE None
    IN AsU32(IF IsSome(n) THEN Unwrap(n) ELSE ToWide(0))

\* RhelLightspeedProvider::transform_response, lines 83-94
rhel_usage(backend_resp, generated_text) ==
    LET usage == Get(backend_resp, "usage")
    IN IF IsSome(usage)
       THEN [prompt_tokens |-> UsageCount(Unwrap(usage), "prompt_tokens"),
             completion_tokens |-> UsageCount(Unwrap(usage), "completion_tokens"),
             total_tokens |-> UsageCount(Unwrap(usage), "total_tokens")]
       ELSE LET estimated_prompt == ToWide(0)
                estimated_completion == AsU32(ToWide(Utf8Len(generated_text) \div 4))
            IN [prompt_tokens |-> estimated_prompt,
                completion_tokens |-> estimated_completion,
                total_tokens |-> U32Add(estimated_prompt, estimated_completion)]

Choice(index, message, finish_reason) ==
    [index |-> index, message |-> message, finish_reason |-> finish_reason]

\* The same construction with the choice left without a finish_reason
rhel_transform_response_unfinished(backend_resp, model, k, clock) ==
    LET generated_text == DataText(backend_resp)
    IN IF ~IsSome(generated_text)
       THEN Err(TransformError(Detail(
                "Could not extract 'data.text' field from backend response. Response: {:?}",
                backend_resp)))
       ELSE Ok([id |-> "chatcmpl-" \o uuid_simple(k),
                object |-> "chat.completion",
                created |-> current_timestamp(clock),
                model |-> model,
                choices |-> <<Choice(ToWide(0),
                                     Message("assistant", Unwrap(generated_text), None, None),
                                     None)>>,
                usage |-> rhel_usage(backend_resp, Unwrap(generated_text))])

\* RhelLightspeedProvider::transform_response. k numbers the identifier that
\* uuid_simple hands out; the Err quotes the payload.
rhel_transform_response(backend_resp, model, k, clock) ==
    LET generated_text == DataText(backend_resp)
    IN IF ~IsSome(generated_text)
       THEN Err(TransformError(Detail(
                "Could not extract 'data.text' field from backend response. Response: {:?}",
                backend_resp)))
       ELSE Ok([id |-> "chatcmpl-" \o uuid_simple(k),
                object |-> "chat.completion",
                created |-> current_timestamp(clock),
                model |-> model,
                choices |-> <<Choice(ToWide(0),
                                     Message("assistant", Unwrap(generated_text), None, None),
                                     Some("stop"))>>,
                usage |-> rhel_usage(backend_resp, Unwrap(generated_text))])

\* RhelLightspeedProvider::extract_streaming_text
rhel_extract_streaming_text(backend_response) ==
    LET t == DataText(backend_response)
    IN IF IsSome(t)
       THEN Ok(Unwrap(t))
       ELSE Err(TransformError(Detail(
                "Could not extract text from backend response for streaming", JNull)))

-----------------------------------------------------------------------------
(* The pass-through variant: provider/lightspeed_core.rs *)

\* serde: a required String field
ReqStr(v, key) ==
    LET o == Get(v, key)
    IN IF IsSome(o) /\ Unwrap(o).t = "str" THEN Some(Unwrap(o).s) ELSE None

\* serde: a required i64 field. An integer number below 2^31 in magnitude is
\* held as itself and a larger one, which an i64 holds too, as its two limbs;
\* a float is refused
ReqI64(v, key) ==
    LET o == Get(v, key)
    IN IF IsSome(o) /\ Unwrap(o).t = "num" THEN Some(Unwrap(o).n)
       ELSE IF IsSome(o) /\ Unwrap(o).t = "big" THEN Some(Wide(Unwrap(o).hi, Unwrap(o).lo))
       ELSE None

\* serde: a required u32 field: an integer from 0 to 2^32 - 1
ReqU32(v, key) ==
    LET o == Get(v, key)
        n == IF IsSome(o) THEN as_u64(Unwrap(o)) ELSE None
    IN IF IsSome(n) /\ Unwrap(n).hi < 65536 THEN n ELSE None

\* serde: an Option<String> field is None when the key is absent or null
OptStrOk(v, key) ==
    LET o == Get(v, key) IN ~IsSome(o) \/ Unwrap(o).t \in {"null", "str"}
OptStr(v, key) ==
    LET o == Get(v, key)
    IN IF IsSome(o) /\ Unwrap(o).t = "str" THEN Some(Unwrap(o).s) ELSE None

\* The derived Deserialize takes a struct from a JSON object, where unknown
\* keys are ignored, or from a JSON array that holds one element for each
\* field, in the order of declaration (visit_seq; serde_json refuses an array
\* with elements left over, and a missing element is an error for every field
\* after which a field without #[serde(default)] follows). Some(the object
\* with the fields as keys), or None.
AsStruct(v, fields) ==
    IF v.t = "obj" THEN Some(v)
    ELSE IF v.t = "arr" /\ Len(v.a) = Len(fields)
    THEN Some(JObj([k \in {fields[i] : i \in DOMAIN fields} |->
                       v.a[CHOOSE i \in DOMAIN fields : fields[i] = k]]))
    ELSE None

\* Deserialize for FunctionCall
DeFunctionCall(v) ==
    LET s == AsStruct(v, <<"name", "arguments">>)
        o == IF IsSome(s) THEN Unwrap(s) ELSE JNull
    IN IF IsSome(ReqStr(o, "name")) /\ IsSome(ReqStr(o, "arguments"))
       THEN Some(FunctionCall(Unwrap(ReqStr(o, "name")), Unwrap(ReqStr(o, "arguments"))))
       ELSE None

\* Deserialize for ToolCall
DeToolCall(v) ==
    LET s == AsStruct(v, <<"id", "type", "function">>)
        o == IF IsSome(s) THEN Unwrap(s) ELSE JNull
    IN IF /\ IsSome(ReqStr(o, "id"))
          /\ IsSome(ReqStr(o, "type"))
          /\ IsSome(Get(o, "function"))
          /\ IsSome(DeFunctionCall(Unwrap(Get(o, "function"))))
       THEN Some(ToolCall(Unwrap(ReqStr(o, "id")), Unwrap(ReqStr(o, "type")),
                          Unwrap(DeFunctionCall(Unwrap(Get(o, "function"))))))
       ELSE None

\* serde: an Option<Vec<ToolCall>> field is None when the key is absent or
\* null, and otherwise must be an array of tool calls
OptToolCallsOk(v, key) ==
    LET o == Get(v, key)
    IN \/ ~IsSome(o)
       \/ Unwrap(o).t = "null"
       \/ /\ Unwrap(o).t = "arr"
          /\ \A i \in DOMAIN Unwrap(o).a : IsSome(DeToolCall(Unwrap(o).a[i]))
OptToolCalls(v, key) ==
    LET o == Get(v, key)
    IN IF IsSome(o) /\ Unwrap(o).t = "arr"
       THEN Some([i \in DOMAIN Unwrap(o).a |-> Unwrap(DeToolCall(Unwrap(o).a[i]))])
       ELSE None

\* Deserialize for Message: role required, content defaults to "" when the
\* key is absent, name and tool_calls optional
DeMessage(v) ==
    LET s == AsStruct(v, <<"role", "content", "name", "tool_calls">>)
        o == IF IsSome(s) THEN Unwrap(s) ELSE JNull
    IN IF /\ IsSome(ReqStr(o, "role"))
          /\ (IsSome(Get(o, "content")) => IsSome(ReqStr(o, "content")))
          /\ OptStrOk(o, "name")
          /\ OptToolCallsOk(o, "tool_calls")
       THEN Some(Message(Unwrap(ReqStr(o, "role")),
                         IF IsSome(Get(o, "content")) THEN Unwrap(ReqStr(o, "content")) ELSE Str(""),
                         OptStr(o, "name"),
                         OptToolCalls(o, "tool_calls")))
       ELSE None

\* Deserialize for Choice
DeChoice(v) ==
    LET s == AsStruct(v, <<"index", "message", "finish_reason">>)
        o == IF IsSome(s) THEN Unwrap(s) ELSE JNull
    IN IF /\ IsSome(ReqU32(o, "index"))
          /\ IsSome(Get(o, "message"))
          /\ IsSome(DeMessage(Unwrap(Get(o, "message"))))
          /\ OptStrOk(o, "finish_reason")
       THEN Some(Choice(Unwrap(ReqU32(o, "index")),
                        Unwrap(DeMessage(Unwrap(Get(o, "message")))),
                        OptStr(o, "finish_reason")))
       ELSE None

\* Deserialize for Usage
DeUsage(v) ==
    LET s == AsStruct(v, <<"prompt_tokens", "completion_tokens", "total_tokens">>)
        o == IF IsSome(s) THEN Unwrap(s) ELSE JNull
    IN IF \A key \in {"prompt_tokens", "completion_tokens", "total_tokens"} :
              IsSome(ReqU32(o, key))
       THEN Some([prompt_tokens |-> Unwrap(ReqU32(o, "prompt_tokens")),
                  completion_tokens |-> Unwrap(ReqU32(o, "completion_tokens")),
                  total_tokens |-> Unwrap(ReqU32(o, "total_tokens"))])
       ELSE None

\* Deserialize for ChatCompletionResponse
DeChatCompletionResponse(v) ==
    LET s == AsStruct(v, <<"id", "object", "created", "model", "choices", "usage">>)
        o == IF IsSome(s) THEN Unwrap(s) ELSE JNull
    IN IF /\ IsSome(ReqStr(o, "id"))
          /\ IsSome(ReqStr(o, "object"))
          /\ IsSome(ReqI64(o, "created"))
          /\ IsSome(ReqStr(o, "model"))
          /\ IsSome(Get(o, "choices"))
          /\ Unwrap(Get(o, "choices")).t = "arr"
          /\ \A i \in DOMAIN Unwrap(Get(o, "choices")).a :
                 IsSome(DeChoice(Unwrap(Get(o, "choices")).a[i]))
          /\ IsSome(Get(o, "usage"))
          /\ IsSome(DeUsage(Unwrap(Get(o, "usage"))))
       THEN Some([id |-> Unwrap(ReqStr(o, "id")),
                  object |-> Unwrap(ReqStr(o, "object")),
                  created |-> Unwrap(ReqI64(o, "created")),
                  model |-> Unwrap(ReqStr(o, "model")),
                  choices |-> [i \in DOMAIN Unwrap(Get(o, "choices")).a |->
                                  Unwrap(DeChoice(Unwrap(Get(o, "choices")).a[i]))],
                  usage |-> Unwrap(DeUsage(Unwrap(Get(o, "usage"))))])
       ELSE None

\* Serialize for ToolCall
SerToolCall(c) ==
    ObjOf({<<"id", JStr(c.id)>>, <<"type", JStr(c.call_type)>>,
           <<"function", ObjOf({<<"name", JStr(c.function.name)>>,
                                <<"arguments", JStr(c.function.arguments)>>})>>})

\* Serialize for Message: name and tool_calls are skipped when None
SerMessage(m) ==
    ObjOf({<<"role", JStr(m.role)>>, <<"content", JStr(m.content)>>}
          \cup (IF IsSome(m.name) THEN {<<"name", JStr(Unwrap(m.name))>>} ELSE {})
          \cup (IF IsSome(m.tool_calls)
                THEN {<<"tool_calls",
                        JArr([i \in DOMAIN Unwrap(m.tool_calls) |->
                                 SerToolCall(Unwrap(m.tool_calls)[i])])>>}
                ELSE {}))

\* Serialize for Option<f32> into a Value: None is null, and so is a float
\* that is not finite (Number::from_f64 has no number for it)
SerOptF32(o) ==
    IF ~IsSome(o) THEN JNull
    ELSE IF Unwrap(o) \in NonFinite THEN JNull ELSE JFloat(Unwrap(o))

SerOptU32(o) == IF IsSome(o) THEN JNum(Unwrap(o)) ELSE JNull
SerOptBool(o) == IF IsSome(o) THEN JBool(Unwrap(o)) ELSE JNull
SerOptString(o) == IF IsSome(o) THEN JStr(Unwrap(o)) ELSE JNull
SerOptStrings(o) ==
    IF IsSome(o) THEN JArr([i \in DOMAIN Unwrap(o) |-> JStr(Unwrap(o)[i])]) ELSE JNull
SerOptValue(o) == IF IsSome(o) THEN Unwrap(o) ELSE JNull

\* Serialize for Tool: "type" is the renamed tool_type; description is skipped
\* when None
SerTool(tool) ==
    ObjOf({<<"type", JStr(tool.tool_type)>>,
           <<"function",
             ObjOf({<<"name", JStr(tool.function.name)>>,
                    <<"parameters", tool.function.parameters>>}
                   \cup (IF IsSome(tool.function.description)
                         THEN {<<"description", JStr(Unwrap(tool.function.description))>>}
                         ELSE {}))>>})

SerOptTools(o) ==
    IF IsSome(o) THEN JArr([i \in DOMAIN Unwrap(o) |-> SerTool(Unwrap(o)[i])]) ELSE JNull

\* The value serialized for a declared field of the request: no field has
\* skip_serializing_if, so None is written as null
SerRequestField(req, key) ==
    CASE key = "model" -> JStr(req.model)
      [] key = "messages" ->
            JArr([i \in DOMAIN req.messages |-> SerMessage(req.messages[i])])
      [] key \in {"temperature", "top_p", "presence_penalty", "frequency_penalty"} ->
            SerOptF32(req[key])
      [] key \in {"n", "max_tokens"} -> SerOptU32(req[key])
      [] key = "stream" -> SerOptBool(req.stream)
      [] key = "stop" -> SerOptStrings(req.stop)
      [] key = "user" -> SerOptString(req.user)
      [] key = "tools" -> SerOptTools(req.tools)
      [] key = "tool_choice" -> SerOptValue(req.tool_choice)

\* LightspeedCoreProvider::transform_request: serde_json::to_value(openai_req).
\* The declared fields are written in order, then the entries of the flattened
\* map; a key written twice keeps the value written last.
core_transform_request(req) ==
    LET declared == {RequestFields[i] : i \in DOMAIN RequestFields}
        flattened == {e[1] : e \in req.extra}
    IN JObj([k \in declared \cup flattened |->
                IF k \in flattened
                THEN (CHOOSE e \in req.extra : e[1] = k)[2]
                ELSE SerRequestField(req, k)])

\* LightspeedCoreProvider::transform_response: serde_json::from_value
core_transform_response(backend_resp, model) ==
    LET parsed == DeChatCompletionResponse(backend_resp)
    IN IF IsSome(parsed)
       THEN Ok(Unwrap(parsed))
       ELSE Err(TransformError(Detail(
                "Failed to parse backend response as OpenAI format: {}. Response: {:?}",
                backend_resp)))

\* LightspeedCoreProvider::extract_streaming_text: choices[0].message.content
core_extract_streaming_text(backend_response) ==
    LET choices == Get(backend_response, "choices")
        arr == IF IsSome(choices) THEN as_array(Unwrap(choices)) ELSE None
        first == IF IsSome(arr) THEN GetIdx(Unwrap(arr), 0) ELSE None
        msg == IF IsSome(first) THEN Get(Unwrap(first), "message") ELSE None
        content == IF IsSome(msg) THEN Get(Unwrap(msg), "content") ELSE None
        str == IF IsSome(content) THEN as_str(Unwrap(content)) ELSE None
    IN IF IsSome(str)
       THEN Ok(Unwrap(str))
       ELSE Err(TransformError(Detail(
                "Could not extract text from backend response for streaming", JNull)))

-----------------------------------------------------------------------------
(* The provider contract: provider.rs, trait Provider; main.rs, create_provider *)

Providers == {"rhel_lightspeed", "lightspeed_core"}

transform_request(p, req) ==
    IF p = "rhel_lightspeed" THEN rhel_transform_request(req)
    ELSE core_transform_request(req)

transform_response(p, backend_resp, model, k, clock) ==
    IF p = "rhel_lightspeed" THEN rhel_transform_response(backend_resp, model, k, clock)
    ELSE core_transform_response(backend_resp, model)

extract_streaming_text(p, backend_response) ==
    IF p = "rhel_lightspeed" THEN rhel_extract_streaming_text(backend_response)
    ELSE core_extract_streaming_text(backend_response)

\* The number of identifiers transform_response draws from uuid_simple
IdsDrawn(p, result) == IF p = "rhel_lightspeed" /\ result.ok THEN 1 ELSE 0

-----------------------------------------------------------------------------
(* The error mapping: proxy.rs, impl IntoResponse for AppError *)

HttpError(status, message, error_type) ==
    [status |-> status, body |-> [error |-> [message |-> message, type |-> error_type]]]

\* An error mapping that puts the error's detail into the message
into_response_echo(e) ==
    HttpError(IF e.variant = "BackendError" THEN 502
              ELSE IF e.variant = "TimeoutError" THEN 504 ELSE 500,
              e.detail,
              IF e.variant = "BackendError" THEN "backend_error"
              ELSE IF e.variant = "TransformError" THEN "transform_error"
              ELSE IF e.variant = "TimeoutError" THEN "timeout_error"
              ELSE "internal_error")

\* An error mapping that answers every failure but the timeout with status 500
into_response_500(e) ==
    IF e.variant = "BackendError"
    THEN HttpError(500, "Backend service unavailable", "backend_error")
    ELSE IF e.variant = "TransformError"
    THEN HttpError(500, "Failed to process response", "transform_error")
    ELSE IF e.variant = "TimeoutError"
    THEN HttpError(504, "Request timeout", "timeout_error")
    ELSE HttpError(500, "Internal server error", "internal_error")

\* AppError::into_response
into_response(e) ==
    IF e.variant = "BackendError"
    THEN HttpError(502, "Backend service unavailable", "backend_error")
    ELSE IF e.variant = "TransformError"
    THEN HttpError(500, "Failed to process response", "transform_error")
    ELSE IF e.variant = "TimeoutError"
    THEN HttpError(504, "Request timeout", "timeout_error")
    ELSE HttpError(500, "Internal server error", "internal_error")

-----------------------------------------------------------------------------
(* The outbound call and its orchestration: provider.rs, handle_request;   *)
(* proxy.rs, handle_streaming_request                                      *)

\* What the backend does with one POST
SendError == [kind |-> "send_error", text |-> "error sending request: connection refused"]
NoReplyInTime == [kind |-> "timeout", text |-> "error sending request: operation timed out"]
BadStatus(status, body) == [kind |-> "status", status |-> status, body |-> body]
MalformedBody == [kind |-> "malformed", text |-> "expected value at line 1 column 1"]
JsonBody(p) == [kind |-> "json", payload |-> p]

\* The same flow with the failure of transform_response reported as a
\* BackendError
handle_request_remapped(p, model, outcome, k, clock) ==
    IF outcome.kind \in {"send_error", "timeout"}
    THEN Err(BackendError(Detail(outcome.text, JNull)))
    ELSE IF outcome.kind = "status"
    THEN Err(BackendError(Detail("Backend returned status " \o outcome.status, JNull)))
    ELSE IF outcome.kind = "malformed"
    THEN Err(BackendError(Detail(outcome.text, JNull)))
    ELSE LET res == transform_response(p, outcome.payload, model, k, clock)
         IN IF res.ok THEN res ELSE Err(BackendError(res.err.detail))

\* Provider::handle_request after the POST was sent. The client was built with
\* .timeout(config.backend.timeout) (provider.rs line 56): when the backend is
\* late, send() returns the client's own error, which line 114 maps.
handle_request(p, model, outcome, k, clock) ==
    IF outcome.kind \in {"send_error", "timeout"}
    THEN Err(BackendError(Detail(outcome.text, JNull)))
    ELSE IF outcome.kind = "status"
    THEN Err(BackendError(Detail("Backend returned status " \o outcome.status, JNull)))
    ELSE IF outcome.kind = "malformed"
    THEN Err(BackendError(Detail(outcome.text, JNull)))
    ELSE transform_response(p, outcome.payload, model, k, clock)

\* The two timers of the streaming path run for the same duration: the one
\* of tokio::time::timeout (proxy.rs line 71) and the client's own.
Timers == {"tokio_timeout", "client_timeout"}

\* handle_streaming_request after the POST was sent; first is the timer that
\* fires first when the backend is late
handle_streaming_request(p, model, outcome, k, clock, first) ==
    IF outcome.kind = "timeout"
    THEN IF first = "tokio_timeout" THEN Err(TimeoutError)
         ELSE Err(BackendError(Detail(outcome.text, JNull)))
    ELSE IF outcome.kind = "send_error"
    THEN Err(BackendError(Detail(outcome.text, JNull)))
    ELSE IF outcome.kind = "status"
    THEN Err(BackendError(Detail("Backend returned status " \o outcome.status, JNull)))
    ELSE IF outcome.kind = "malformed"
    THEN Err(BackendError(Detail(outcome.text, JNull)))
    ELSE LET generated_text == extract_streaming_text(p, outcome.payload)
         IN IF generated_text.ok
            THEN Ok(create_streaming_chunks(generated_text.value, model, k, clock))
            ELSE generated_text

\* The whole chunk sequence of a stream, in emission order
AllChunks(s) == [n \in 1..(LastItem(s.total_chunks) + 1) |-> ChunkAt(s, n - 1)]

-----------------------------------------------------------------------------
(* The router: main.rs, lines 195-201 *)

ChatRoute == "/v1/chat/completions"

\* The same calls with the chat-completion route added after the limiter
RouterCallsChatLast ==
    << [call |-> "route", arg |-> "/health"],
       [call |-> "route", arg |-> "/v1/models"],
       [call |-> "layer", arg |-> "governor"],
       [call |-> "route", arg |-> ChatRoute],
       [call |-> "layer", arg |-> "cors"] >>

\* Router::new().route(..).route(..).route(..).layer(governor_layer).layer(cors)
RouterCalls ==
    << [call |-> "route", arg |-> "/health"],
       [call |-> "route", arg |-> ChatRoute],
       [call |-> "route", arg |-> "/v1/models"],
       [call |-> "layer", arg |-> "governor"],
       [call |-> "layer", arg |-> "cors"] >>

Routes == {RouterCalls[i].arg : i \in {j \in DOMAIN RouterCalls : RouterCalls[j].call = "route"}}

\* Router::layer wraps the routes added before it, and no route added later
LayersOf(path) ==
    {RouterCalls[i].arg : i \in {j \in DOMAIN RouterCalls :
        /\ RouterCalls[j].call = "layer"
        /\ \E r \in 1..(j - 1) : RouterCalls[r].call = "route" /\ RouterCalls[r].arg = path}}

-----------------------------------------------------------------------------
(* The c command: crates/cli/src/main.rs *)

GOOSE_SUBCOMMANDS ==
    {"configure", "info", "mcp", "acp", "session", "s", "project", "p",
     "projects", "ps", "run", "recipe", "schedule", "sched", "update",
     "bench", "web"}

MAX_ARG_LENGTH == 1000000
MAX_TOTAL_ARGS_LENGTH == 10000000

EX_UNAVAILABLE == 69
EX_SOFTWARE == 70
EX_OSERR == 71
EX_CANTCREAT == 73

is_goose_subcommand(arg) == arg \in {Str(c) : c \in GOOSE_SUBCOMMANDS}

RECURSIVE TotalLength(_)
TotalLength(argv) ==
    IF argv = <<>> THEN 0 ELSE Utf8Len(Head(argv)) + TotalLength(Tail(argv))

\* arg.contains('\0')
ContainsNul(arg) == \E i \in DOMAIN arg : arg[i] = 0

\* validate_args: TRUE for Ok(()), FALSE for each of the three bail! exits
validate_args(argv) ==
    /\ \A i \in DOMAIN argv :
           /\ Utf8Len(argv[i]) <= MAX_ARG_LENGTH
           /\ ~ContainsNul(argv[i])
    /\ TotalLength(argv) <= MAX_TOTAL_ARGS_LENGTH

\* build_goose_args
build_goose_args(argv) ==
    IF argv[1] = Str("-i") \/ argv[1] = Str("--interactive")
    THEN <<Str("session")>>
    ELSE <<Str("run"), Str("-t")>> \o argv

\* The ExitStatus of the child: it exited with a code, or a signal ended it
Exited(code) == [code |-> Some(code), signal |-> None]
Signaled(signal) == [code |-> None, signal |-> Some(signal)]

\* status_to_exit_code
status_to_exit_code(status) ==
    IF IsSome(status.code) THEN Unwrap(status.code)
    ELSE IF IsSome(status.signal) THEN 128 + Unwrap(status.signal)
    ELSE 1

\* What one run did: the help it printed (none, on stdout, after the error
\* on stderr), the arguments it ran goose with (Option), its exit code
CliRun(help, goose_args, exit_code) ==
    [help |-> help, goose_args |-> goose_args, exit_code |-> exit_code]

\* main. env is what the run finds: config_ok (ensure_goose_config_files),
\* goose (Option of the path find_goose returns), spawn_ok, wait_ok and the
\* status of the child.
main(argv, env) ==
    IF argv = <<>> \/ argv[1] = Str("-h") \/ argv[1] = Str("--help")
    THEN CliRun("stdout", None, 0)
    ELSE IF is_goose_subcommand(argv[1])
    THEN CliRun("after_error", None, 1)
    ELSE IF ~validate_args(argv)
    THEN CliRun("none", None, EX_SOFTWARE)
    ELSE IF ~env.config_ok
    THEN CliRun("none", None, EX_CANTCREAT)
    ELSE IF ~IsSome(env.goose)
    THEN CliRun("none", None, EX_UNAVAILABLE)
    ELSE IF ~env.spawn_ok
    THEN CliRun("none", None, EX_SOFTWARE)
    ELSE IF ~env.wait_ok
    THEN CliRun("none", Some(build_goose_args(argv)), EX_OSERR)
    ELSE CliRun("none", Some(build_goose_args(argv)), status_to_exit_code(env.status))

-----------------------------------------------------------------------------
(* Inputs *)

Roles == {"user", "system", "User"}
Contents == {Str(""), Str("a"), Str("b")}
Messages == {Message(r, c, None, None) : r \in Roles, c \in Contents}
MessageSeqs == UNION {[1..n -> Messages] : n \in 0..MaxMessages}
StreamFlags == {None, Some(TRUE), Some(FALSE)}
Requests == {ChatCompletionRequest(ModelName, ms, f) : ms \in MessageSeqs, f \in StreamFlags}

\* Requests that populate the other fields
NamedMessageSeqs ==
    { <<>>,
      <<Message("system", Str("a"), None, None), Message("user", Str("b"), Some("n1"), None)>>,
      <<Message("user", Str("a"), None, None),
        Message("assistant", Str(""), None,
                Some(<<ToolCall("c1", "function", FunctionCall("f", "{}"))>>))>>,
      <<Message("user", Str("b"), Some("n1"), None), Message("system", Str("a"), None, None),
        Message("user", Str("a"), None, None)>> }
F32Options == {None, Some("0.7"), Some("inf")}
SamplingOptions ==
    {[top_p |-> None, max_tokens |-> None, presence_penalty |-> None,
      frequency_penalty |-> None],
     [top_p |-> Some("0.9"), max_tokens |-> Some(100), presence_penalty |-> Some("0.5"),
      frequency_penalty |-> Some("0.3")]}
ToolOptions ==
    {[tools |-> None, tool_choice |-> None],
     [tools |-> Some(<<Tool("function", "ls", None, JObj(<<>>)),
                       Tool("function", "cat", Some("print a file"), JObj(<<>>))>>),
      tool_choice |-> Some(JStr("auto"))]}
ExtraOptions ==
    {{}, {<<"seed", JNum(7)>>, <<"metadata", ObjOf({<<"team", JStr("a")>>})>>}}
RequestOptions ==
    {[f \in {"temperature", "n", "stop", "user", "extra"} \cup DOMAIN so \cup DOMAIN to |->
        CASE f = "temperature" -> t
          [] f = "n" -> n
          [] f = "stop" -> st
          [] f = "user" -> u
          [] f = "extra" -> e
          [] f \in DOMAIN so -> so[f]
          [] f \in DOMAIN to -> to[f]] :
        t \in F32Options, n \in {None, Some(2)}, st \in {None, Some(<<"STOP", "END">>)},
        u \in {None, Some("u1")}, e \in ExtraOptions, so \in SamplingOptions,
        to \in ToolOptions}
RichRequests ==
    {WithOptions(ChatCompletionRequest(ModelName, ms, f), o) :
        ms \in NamedMessageSeqs, f \in StreamFlags, o \in RequestOptions}

\* The sets of <<key, value>> pairs for a key that is absent or has one of vals
OptField(key, vals) == {{}} \cup {{<<key, v>>} : v \in vals}

\* The last one is U+00E9 twice: two characters, four bytes
ResponseTexts ==
    {Str(""), Str("a"), Str("a b"), Str("abab"), Str("ab ab"), <<233, 233>>}

\* Backend bodies in the question/answer shape of the field-remapping variant
TextValues == {JNull, JNum(7), JObj(<<>>)} \cup {JStr(t) : t \in ResponseTexts}
DataValues ==
    {JNull, JStr("a"), JObj(<<>>), ObjOf({<<"wrong_field", JStr("a")>>})}
    \cup {ObjOf({<<"text", v>>}) : v \in TextValues}
CountValues == {JNum(3), JNum(5), JNum(-1), JStr("a"), JBig(65536, 5)}
UsageValues ==
    {JNull}
    \cup {ObjOf(p \cup c \cup t) : p \in OptField("prompt_tokens", CountValues),
                                   c \in OptField("completion_tokens", CountValues),
                                   t \in OptField("total_tokens", {JNum(8), JNum(9)})}
RhelPayloads ==
    {ObjOf(d \cup u \cup e) : d \in OptField("data", DataValues),
                              u \in OptField("usage", UsageValues),
                              e \in OptField("error", {JStr("something went wrong")})}

\* Backend bodies in the chat-completion shape of the pass-through variant
BackendIds == {"chatcmpl-123", "chatcmpl-456"}
GoodToolCall ==
    ObjOf({<<"id", JStr("c1")>>, <<"type", JStr("function")>>,
           <<"function", ObjOf({<<"name", JStr("f")>>, <<"arguments", JStr("{}")>>})>>})
CoreMessages ==
    {ObjOf(r \cup c \cup t) :
        r \in OptField("role", {JStr("assistant")}),
        c \in OptField("content", {JStr(Str("a b")), JNull}),
        t \in OptField("tool_calls", {JNum(5), JArr(<<GoodToolCall>>)})}
    \cup {JArr(<<JStr("assistant"), JStr(Str("a b")), JNull, JNull>>),
          JArr(<<JStr("assistant"), JStr(Str("a b"))>>)}
CoreChoices ==
    {ObjOf({<<"index", JNum(i)>>, <<"message", m>>} \cup f) :
        i \in {0, 1}, m \in CoreMessages,
        f \in OptField("finish_reason", {JNull, JStr("stop")})}
GoodChoice ==
    ObjOf({<<"index", JNum(0)>>,
           <<"message", ObjOf({<<"role", JStr("assistant")>>, <<"content", JStr(Str("a b"))>>})>>,
           <<"finish_reason", JStr("stop")>>})
ChoicesValues ==
    {JArr(<<>>), JArr(<<GoodChoice, GoodChoice>>), JStr("a")}
    \cup {JArr(<<c>>) : c \in CoreChoices}
GoodUsage ==
    ObjOf({<<"prompt_tokens", JNum(1)>>, <<"completion_tokens", JNum(2)>>,
           <<"total_tokens", JNum(3)>>})
CorePayloads ==
    {ObjOf({<<"object", JStr("chat.completion")>>, <<"created", t>>}
           \cup i \cup m \cup c \cup u) :
        t \in {JNum(1), JBig(32768, 0)},
        i \in OptField("id", {JStr(b) : b \in BackendIds}),
        m \in OptField("model", {JStr(ModelName), JStr("other")}),
        c \in OptField("choices", ChoicesValues),
        u \in OptField("usage", {GoodUsage})}
    \cup {JArr(<<JStr("chatcmpl-123"), JStr("chat.completion"), JNum(1), JStr(ModelName),
                 JArr(<<JArr(<<JNum(0), JArr(<<JStr("assistant"), JStr(Str("a b")), JNull, JNull>>),
                               JStr("stop")>>)>>),
                 JArr(<<JNum(1), JNum(2), JNum(3)>>)>>),
          JArr(<<JStr("chatcmpl-123"), JStr("chat.completion"), JNum(1), JStr(ModelName),
                 JArr(<<>>), JArr(<<JNum(1), JNum(2), JNum(3), JNum(4)>>)>>)}

Payloads == RhelPayloads \cup CorePayloads

-----------------------------------------------------------------------------
(* The values of the variables a specification does not use *)

NoRequest == ChatCompletionRequest(ModelName, <<>>, None)

IdleChunks ==
    /\ text = <<>> /\ stream = NoStream /\ emitted = <<>> /\ ended = FALSE
    /\ timer = "none" /\ dropped = None
IdleRequest == request = NoRequest /\ backend_request = None
IdleResponse == payload = JNull /\ response_result = None /\ text_result = None
IdleGateway == bucket = RateLimitBurst /\ reqs = <<>>
IdleErrors == failures = <<>> /\ replies = <<>>
IdleCli == args = <<>> /\ cli = None
IdleStartup == boot = None
IdleConfig == procs = <<>> /\ disk = None

-----------------------------------------------------------------------------
(* SpecChunks: the streaming engine on every text of the bound *)

InitChunks ==
    /\ text \in Texts
    /\ stream = NoStream
    /\ emitted = <<>>
    /\ ended = FALSE
    /\ timer = "none"
    /\ dropped = None
    /\ now = 0
    /\ issued = 0
    /\ provider = "rhel_lightspeed"
    /\ IdleRequest
    /\ IdleResponse
    /\ IdleGateway
    /\ IdleErrors
    /\ IdleCli
    /\ IdleStartup
    /\ IdleConfig

\* handle_streaming_request, line 115: the stream is built from the text
CreateStream ==
    /\ stream = NoStream
    /\ stream' = create_streaming_chunks(text, ModelName, issued + 1, now)
    /\ issued' = issued + 1
    /\ UNCHANGED <<text, emitted, ended, timer, dropped, now, provider, requestVars, responseVars, gatewayVars, errorVars, cliVars, startupVars, configVars>>

\* The consumer polls the stream: the range yields step i > 0, whose future
\* registers its sleep of 20 ms and returns Pending (lines 138-139)
StartStep ==
    /\ stream # NoStream
    /\ dropped = None
    /\ ~ended
    /\ timer = "none"
    /\ stream.pos > 0
    /\ stream.pos <= LastItem(stream.total_chunks)
    /\ timer' = "armed"
    /\ UNCHANGED <<text, stream, emitted, ended, dropped, now, issued, provider, requestVars, responseVars, gatewayVars, errorVars, cliVars, startupVars, configVars>>

\* The runtime's timer wheel: the 20 ms of the sleep in flight have passed
TimerFires ==
    /\ timer = "armed"
    /\ timer' = "fired"
    /\ UNCHANGED <<text, stream, emitted, ended, dropped, now, issued, provider, requestVars, responseVars, gatewayVars, errorVars, cliVars, startupVars, configVars>>

\* The step's future completes with its chunk: at once for step 0, which
\* does not sleep, and after its sleep for every later step
PollChunk ==
    /\ stream # NoStream
    /\ dropped = None
    /\ ~ended
    /\ stream.pos <= LastItem(stream.total_chunks)
    /\ timer = (IF stream.pos > 0 THEN "fired" ELSE "none")
    /\ emitted' = Append(emitted, ChunkAt(stream, stream.pos))
    /\ stream' = [stream EXCEPT !.pos = @ + 1]
    /\ timer' = "none"
    /\ UNCHANGED <<text, ended, dropped, now, issued, provider, requestVars, responseVars, gatewayVars, errorVars, cliVars, startupVars, configVars>>

\* The consumer polls the stream and the range is exhausted
PollEnd ==
    /\ stream # NoStream
    /\ dropped = None
    /\ ~ended
    /\ stream.pos > LastItem(stream.total_chunks)
    /\ ended' = TRUE
    /\ UNCHANGED <<text, stream, emitted, timer, dropped, now, issued, provider, requestVars, responseVars, gatewayVars, errorVars, cliVars, startupVars, configVars>>

\* The caller disconnects and axum drops the body: the step still pending
\* would go on sleeping
DropStreamDetached ==
    /\ stream # NoStream
    /\ dropped = None
    /\ dropped' = Some([step |-> stream.pos, timer |-> timer])
    /\ UNCHANGED <<text, stream, emitted, ended, timer, now, issued, provider, requestVars, responseVars, gatewayVars, errorVars, cliVars, startupVars, configVars>>

\* The caller disconnects and axum drops the body: the stream owns the
\* future of the step in flight, and the future owns its Sleep, so dropping
\* the stream deregisters the timer
DropStream ==
    /\ stream # NoStream
    /\ dropped = None
    /\ dropped' = Some([step |-> stream.pos, timer |-> timer])
    /\ timer' = "none"
    /\ UNCHANGED <<text, stream, emitted, ended, now, issued, provider, requestVars, responseVars, gatewayVars, errorVars, cliVars, startupVars, configVars>>

\* Time passes (the paced delays of 20 ms add up)
Tick ==
    /\ now < MaxClock
    /\ ~ended
    /\ now' = now + 1
    /\ UNCHANGED <<chunkVars, issued, provider, requestVars, responseVars, gatewayVars, errorVars, cliVars, startupVars, configVars>>

NextChunks ==
    \/ CreateStream
    \/ StartStep
    \/ TimerFires
    \/ PollChunk
    \/ PollEnd
    \/ DropStream
    \/ Tick

SpecChunks == InitChunks /\ [][NextChunks]_vars

-----------------------------------------------------------------------------
(* SpecRequest: transform_request on every request of the bound *)

InitRequest ==
    /\ provider \in Providers
    /\ request \in Requests \cup RichRequests
    /\ backend_request = None
    /\ now = 0
    /\ issued = 0
    /\ IdleChunks
    /\ IdleResponse
    /\ IdleGateway
    /\ IdleErrors
    /\ IdleCli
    /\ IdleStartup
    /\ IdleConfig

\* Provider::handle_request line 102, handle_streaming_request line 66
TransformRequest ==
    /\ backend_request = None
    /\ backend_request' = Some(transform_request(provider, request))
    /\ UNCHANGED <<chunkVars, now, issued, provider, request, responseVars, gatewayVars, errorVars, cliVars, startupVars, configVars>>

NextRequest == TransformRequest

SpecRequest == InitRequest /\ [][NextRequest]_vars

-----------------------------------------------------------------------------
(* SpecResponse: transform_response and extract_streaming_text on every    *)
(* backend body of the bound                                               *)

InitResponse ==
    /\ provider \in Providers
    /\ payload \in Payloads
    /\ response_result = None
    /\ text_result = None
    /\ now = 0
    /\ issued = 0
    /\ IdleChunks
    /\ IdleRequest
    /\ IdleGateway
    /\ IdleErrors
    /\ IdleCli
    /\ IdleStartup
    /\ IdleConfig

\* Provider::handle_request line 139
TransformResponse ==
    /\ response_result = None
    /\ LET res == transform_response(provider, payload, ModelName, issued + 1, now)
       IN /\ response_result' = Some(res)
          /\ issued' = issued + IdsDrawn(provider, res)
    /\ UNCHANGED <<chunkVars, now, provider, requestVars, payload, text_result, gatewayVars, errorVars, cliVars, startupVars, configVars>>

\* handle_streaming_request line 112
ExtractStreamingText ==
    /\ text_result = None
    /\ text_result' = Some(extract_streaming_text(provider, payload))
    /\ UNCHANGED <<chunkVars, now, issued, provider, requestVars, payload, response_result,
                   gatewayVars, errorVars, cliVars, startupVars, configVars>>

NextResponse == TransformResponse \/ ExtractStreamingText

SpecResponse == InitResponse /\ [][NextResponse]_vars

-----------------------------------------------------------------------------
(* Spec: the gateway serving concurrent requests *)

GatewayPayloads ==
    { ObjOf({<<"data", ObjOf({<<"text", JStr(Str("a b"))>>})>>}),
      ObjOf({<<"error", JStr("something went wrong")>>}),
      ObjOf({<<"id", JStr("chatcmpl-123")>>, <<"object", JStr("chat.completion")>>,
             <<"created", JNum(1)>>, <<"model", JStr(ModelName)>>,
             <<"choices", JArr(<<GoodChoice>>)>>, <<"usage", GoodUsage>>}) }

Outcomes ==
    {SendError, NoReplyInTime, BadStatus("500 Internal Server Error", "secret"),
     MalformedBody}
    \cup {JsonBody(p) : p \in GatewayPayloads}

NoOutcome == [kind |-> "none"]
NoHttp == [status |-> 0]

\* path is the branch chat_completions_handler took, calls the functions of
\* the provider it has invoked so far, result the Option of the path's Result
NewRequest ==
    [pc |-> "new", route |-> "", stream |-> None, limiter |-> "none",
     path |-> "none", calls |-> <<>>,
     posts |-> 0, outcome |-> NoOutcome, result |-> None, http |-> NoHttp]

Init ==
    /\ provider \in Providers
    /\ bucket = RateLimitBurst
    /\ reqs = [r \in 1..MaxRequests |-> NewRequest]
    /\ now = 0
    /\ issued = 0
    /\ IdleChunks
    /\ IdleRequest
    /\ IdleResponse
    /\ IdleErrors
    /\ IdleCli
    /\ IdleStartup
    /\ IdleConfig

GatewayUnchanged == UNCHANGED <<chunkVars, now, provider, requestVars, responseVars, errorVars, cliVars, startupVars, configVars>>

\* A request arrives and enters the layers of its route. The CORS layer lets
\* every request through; the limiter is the first layer that can answer.
Arrive(r, route, flag) ==
    /\ reqs[r].pc = "new"
    /\ r > 1 => reqs[r - 1].pc # "new"
    /\ route # ChatRoute => flag = None
    /\ reqs' = [reqs EXCEPT ![r].route = route, ![r].stream = flag,
                            ![r].pc = IF "governor" \in LayersOf(route)
                                      THEN "limiter" ELSE "handler"]
    /\ UNCHANGED <<bucket, issued>>
    /\ GatewayUnchanged

\* GovernorLayer, burst not exhausted: the request takes a cell and goes on
Admit(r) ==
    /\ reqs[r].pc = "limiter"
    /\ bucket > 0
    /\ bucket' = bucket - 1
    /\ reqs' = [reqs EXCEPT ![r].limiter = "admitted", ![r].pc = "handler"]
    /\ UNCHANGED issued
    /\ GatewayUnchanged

\* GovernorLayer, burst exhausted: the layer answers 429 itself
Reject(r) ==
    /\ reqs[r].pc = "limiter"
    /\ bucket = 0
    /\ reqs' = [reqs EXCEPT ![r].limiter = "rejected", ![r].pc = "done",
                            ![r].http = [status |-> 429]]
    /\ UNCHANGED <<bucket, issued>>
    /\ GatewayUnchanged

\* GovernorLayer: one cell is replenished every 1 / per_second seconds
Replenish ==
    /\ bucket < RateLimitBurst
    /\ bucket' = bucket + 1
    /\ UNCHANGED <<reqs, issued>>
    /\ GatewayUnchanged

\* health_check_handler, models_handler: answered without a backend call
HandleLocal(r) ==
    /\ reqs[r].pc = "handler"
    /\ reqs[r].route # ChatRoute
    /\ reqs' = [reqs EXCEPT ![r].pc = "done", ![r].http = [status |-> 200]]
    /\ UNCHANGED <<bucket, issued>>
    /\ GatewayUnchanged

\* request.stream.unwrap_or(true)
IsStreamingByDefault(flag) == IF IsSome(flag) THEN Unwrap(flag) ELSE TRUE

\* request.stream.unwrap_or(false)
IsStreaming(flag) == IF IsSome(flag) THEN Unwrap(flag) ELSE FALSE

\* The functions of the provider a path invokes once the backend has acted:
\* none unless the body was parsed (the earlier returns of handle_request and
\* handle_streaming_request), then the path's own one
CallsAfterPost(path, outcome) ==
    IF outcome.kind # "json" THEN <<>>
    ELSE IF path = "streaming" THEN <<"extract_streaming_text">>
    ELSE <<"transform_response">>

\* chat_completions_handler up to the await of send(): the handler picks its
\* path by the stream flag, the path calls transform_request, the POST goes out
Post(r) ==
    /\ reqs[r].pc = "handler"
    /\ reqs[r].route = ChatRoute
    /\ reqs' = [reqs EXCEPT ![r].posts = @ + 1, ![r].pc = "awaiting",
                            ![r].path = IF IsStreaming(reqs[r].stream)
                                        THEN "streaming" ELSE "non_streaming",
                            ![r].calls = <<"transform_request">>]
    /\ UNCHANGED <<bucket, issued>>
    /\ GatewayUnchanged

\* The response of chat_completions_handler for the result of its path
ChatHttp(res, streaming) ==
    IF ~res.ok THEN into_response(res.err)
    ELSE IF streaming
         THEN [status |-> 200, kind |-> "sse", id |-> res.value.chunk_id,
               chunks |-> AllChunks(res.value)]
         ELSE [status |-> 200, kind |-> "json", id |-> res.value.id, body |-> res.value]

\* The same step with a failed call sent to the backend once more
ReplyNonStreamingRetrying(r, outcome) ==
    /\ reqs[r].pc = "awaiting"
    /\ reqs[r].path = "non_streaming"
    /\ LET res == handle_request(provider, ModelName, outcome, issued + 1, now)
       IN /\ reqs' = IF res.ok
                     THEN [reqs EXCEPT ![r].pc = "done", ![r].outcome = outcome,
                                       ![r].calls = @ \o CallsAfterPost("non_streaming", outcome),
                                       ![r].result = Some(res),
                                       ![r].http = ChatHttp(res, FALSE)]
                     ELSE [reqs EXCEPT ![r].posts = @ + 1, ![r].outcome = outcome]
          /\ issued' = issued + IdsDrawn(provider, res)
    /\ UNCHANGED bucket
    /\ GatewayUnchanged

\* The rest of the non-streaming path, once the backend has acted
ReplyNonStreaming(r, outcome) ==
    /\ reqs[r].pc = "awaiting"
    /\ reqs[r].path = "non_streaming"
    /\ LET res == handle_request(provider, ModelName, outcome, issued + 1, now)
       IN /\ reqs' = [reqs EXCEPT ![r].pc = "done", ![r].outcome = outcome,
                                  ![r].calls = @ \o CallsAfterPost("non_streaming", outcome),
                                  ![r].result = Some(res),
                                  ![r].http = ChatHttp(res, FALSE)]
          /\ issued' = issued + IdsDrawn(provider, res)
    /\ UNCHANGED bucket
    /\ GatewayUnchanged

\* The rest of the streaming path, once the backend has acted
ReplyStreaming(r, outcome, first) ==
    /\ reqs[r].pc = "awaiting"
    /\ reqs[r].path = "streaming"
    /\ outcome.kind # "timeout" => first = "tokio_timeout"
    /\ LET res == handle_streaming_request(provider, ModelName, outcome, issued + 1, now, first)
       IN /\ reqs' = [reqs EXCEPT ![r].pc = "done", ![r].outcome = outcome,
                                  ![r].calls = @ \o CallsAfterPost("streaming", outcome),
                                  ![r].result = Some(res),
                                  ![r].http = ChatHttp(res, TRUE)]
          /\ issued' = issued + (IF res.ok THEN 1 ELSE 0)
    /\ UNCHANGED bucket
    /\ GatewayUnchanged

Next ==
    \/ \E r \in 1..MaxRequests, route \in Routes, flag \in StreamFlags : Arrive(r, route, flag)
    \/ \E r \in 1..MaxRequests : Admit(r)
    \/ \E r \in 1..MaxRequests : Reject(r)
    \/ Replenish
    \/ \E r \in 1..MaxRequests : HandleLocal(r)
    \/ \E r \in 1..MaxRequests : Post(r)
    \/ \E r \in 1..MaxRequests, o \in Outcomes : ReplyNonStreaming(r, o)
    \/ \E r \in 1..MaxRequests, o \in Outcomes, f \in Timers : ReplyStreaming(r, o, f)

Spec == Init /\ [][Next]_vars

-----------------------------------------------------------------------------
(* SpecErrors: into_response on pairs of AppError values *)

\* The details handle_request puts into a BackendError
BackendDetails ==
    {handle_request("rhel_lightspeed", ModelName, o, 1, 0).err.detail :
        o \in {SendError, NoReplyInTime, MalformedBody,
               BadStatus("500 Internal Server Error", "secret")}}

\* The details the provider variants put into a TransformError
TransformDetails ==
    {rhel_transform_response(p, ModelName, 1, 0).err.detail :
        p \in {q \in GatewayPayloads : ~rhel_transform_response(q, ModelName, 1, 0).ok}}
    \cup {core_transform_response(p, ModelName).err.detail :
        p \in {q \in GatewayPayloads : ~core_transform_response(q, ModelName).ok}}
    \cup {rhel_extract_streaming_text(JNull).err.detail}

AppErrors ==
    {BackendError(d) : d \in BackendDetails}
    \cup {TransformError(d) : d \in TransformDetails}
    \cup {TimeoutError}
    \cup {InternalError(Detail(w, JNull)) : w \in {"panic", "internal issue"}}

InitErrors ==
    /\ failures \in [1..2 -> AppErrors]
    /\ replies = [i \in 1..2 |-> None]
    /\ provider = "rhel_lightspeed"
    /\ now = 0
    /\ issued = 0
    /\ IdleChunks
    /\ IdleRequest
    /\ IdleResponse
    /\ IdleGateway
    /\ IdleCli
    /\ IdleStartup
    /\ IdleConfig

\* axum turns the handler's Err(e) into the response e.into_response()
IntoResponse(i) ==
    /\ replies[i] = None
    /\ replies' = [replies EXCEPT ![i] = Some(into_response(failures[i]))]
    /\ UNCHANGED <<chunkVars, now, issued, provider, requestVars, responseVars,
                   gatewayVars, failures, cliVars, startupVars, configVars>>

NextErrors == \E i \in 1..2 : IntoResponse(i)

SpecErrors == InitErrors /\ [][NextErrors]_vars

-----------------------------------------------------------------------------
(* The c command: its argument lists and what a run finds on the host *)

ArgWords ==
    {Str("-h"), Str("--help"), Str("-i"), Str("--interactive"), Str("session"),
     Str("run"), Str("how do I list files"), Str("explain")}
ArgLists == UNION {[1..n -> ArgWords] : n \in 0..MaxArgs}

Statuses == {Exited(0), Exited(3), Signaled(9)}
Environments ==
    [config_ok : BOOLEAN, goose : {None, Some("/usr/bin/goose")},
     spawn_ok : BOOLEAN, wait_ok : BOOLEAN, status : Statuses]

-----------------------------------------------------------------------------
(* SpecStartup: one start of the gateway, main of crates/clad/src/main.rs *)

\* HeaderValue::from_str (origin.parse::<HeaderValue>()): every byte is a
\* tab, or at least 0x20 and not 0x7F (the bytes of a character above U+007F
\* are all at least 0x80)
IsHeaderValue(o) == \A i \in DOMAIN o : o[i] = 9 \/ (o[i] >= 32 /\ o[i] # 127)

\* The configuration as read_to_string and toml::from_str leave it
load_config(env) ==
    IF env.config = "unreadable" THEN Err("Failed to read config")
    ELSE IF env.config = "unparsable" THEN Err("Failed to parse config")
    ELSE Ok("config")

\* common::create_authenticated_client: both files must exist and be read,
\* they must hold a PEM identity, and a configured proxy URL must parse
create_authenticated_client(env) ==
    IF env.cert_file = "missing" THEN Err("Failed to read certificate file metadata")
    ELSE IF env.key_file = "missing" THEN Err("Failed to read key file metadata")
    ELSE IF env.cert_file # "pem" \/ env.key_file # "pem" THEN Err("Identity::from_pkcs8_pem")
    ELSE IF env.proxies = "bad" THEN Err("Proxy")
    ELSE Ok("client")

\* create_provider
create_provider(name) ==
    IF name = "rhel_lightspeed" \/ name = "lightspeed_core"
    THEN Ok(name)
    ELSE Err("Unknown provider")

\* The origins that parse as header values, in their configured order
allowed_origins(origins) == SelectSeq(origins, IsHeaderValue)

\* The check on the allow-list if an empty list meant any origin
CorsConfiguredAllowAll(origins) == TRUE

\* main, lines 168-171: an empty allow-list is fatal
CorsConfigured(origins) == allowed_origins(origins) # <<>>

\* GovernorConfigBuilder::finish: None for a zero period or a zero burst
governor_finish(per_second, burst_size) ==
    IF burst_size # 0 /\ per_second # 0
    THEN Some([per_second |-> per_second, burst_size |-> burst_size])
    ELSE None

\* The second one is a, carriage return, b
OriginValues == {Str("http://a"), <<97, 13, 98>>}
OriginLists == UNION {[1..n -> OriginValues] : n \in 0..MaxOrigins}

StartupEnvironments ==
    [config : {"unreadable", "unparsable", "ok"},
     cert_file : {"missing", "garbage", "pem"},
     key_file : {"missing", "garbage", "pem"},
     proxies : {"none", "bad"},
     provider_name : Providers \cup {"bogus"},
     origins : OriginLists,
     rate_limit_per_second : {0, 1},
     rate_limit_burst : {0, 1},
     addr_ok : BOOLEAN,
     port_free : BOOLEAN]

InitStartup ==
    /\ boot \in {[env |-> e, pc |-> "load_config", bound |-> FALSE, exit |-> None] :
                   e \in StartupEnvironments}
    /\ provider = "rhel_lightspeed"
    /\ now = 0
    /\ issued = 0
    /\ IdleChunks
    /\ IdleRequest
    /\ IdleResponse
    /\ IdleGateway
    /\ IdleErrors
    /\ IdleCli
    /\ IdleConfig

StartupUnchanged ==
    UNCHANGED <<chunkVars, now, issued, provider, requestVars, responseVars,
                gatewayVars, errorVars, cliVars, configVars>>

\* The step at pc goes on to next if ok, and otherwise ends the process with
\* std::process::exit(1)
StartupStep(pc, ok, next) ==
    /\ boot.pc = pc
    /\ boot' = IF ok THEN [boot EXCEPT !.pc = next]
               ELSE [boot EXCEPT !.pc = "exited", !.exit = Some(1)]
    /\ StartupUnchanged

\* main, lines 79-99
LoadConfig == StartupStep("load_config", load_config(boot.env).ok, "create_client")

\* main, lines 133-137
CreateClient ==
    StartupStep("create_client", create_authenticated_client(boot.env).ok, "create_provider")

\* main, lines 140-144
CreateProvider ==
    StartupStep("create_provider", create_provider(boot.env.provider_name).ok, "cors")

\* main, lines 158-176
SetupCors == StartupStep("cors", CorsConfigured(boot.env.origins), "rate_limit")

\* main, lines 179-192
SetupRateLimit ==
    StartupStep("rate_limit",
                IsSome(governor_finish(boot.env.rate_limit_per_second,
                                       boot.env.rate_limit_burst)),
                "bind")

\* main, lines 203-216: the address is parsed and the listener bound
BindListener ==
    /\ boot.pc = "bind"
    /\ boot' = IF boot.env.addr_ok /\ boot.env.port_free
               THEN [boot EXCEPT !.pc = "serve", !.bound = TRUE]
               ELSE [boot EXCEPT !.pc = "exited", !.exit = Some(1)]
    /\ StartupUnchanged

NextStartup ==
    \/ LoadConfig
    \/ CreateClient
    \/ CreateProvider
    \/ SetupCors
    \/ SetupRateLimit
    \/ BindListener

SpecStartup == InitStartup /\ [][NextStartup]_vars

-----------------------------------------------------------------------------
(* SpecConfig: several c processes in ensure_goose_config_files
   (crates/cli/src/main.rs) on one goose configuration directory *)

Procs == 1..MaxProcs

\* config_yaml_content, and what a config.yaml the user wrote holds
DefaultConfig == "OLLAMA_HOST: 127.0.0.1:8080 ..."
UserConfig == "GOOSE_PROVIDER: openai"

\* A temporary file while write_all has written only part of the content
PartialConfig == "OLLAMA_HOST: 127"

\* The directory: config.yaml if it exists, the temporary files by owner,
\* the processes holding a lock on .config.lock, and the count of renames
\* onto config.yaml
NewDisk(config_yaml) ==
    [config_yaml |-> config_yaml, temps |-> [p \in {} |-> ""],
     lock_holders |-> {}, writes |-> 0]

InitConfig ==
    /\ procs = [p \in Procs |-> "create_dirs"]
    /\ disk \in {NewDisk(None), NewDisk(Some(UserConfig))}
    /\ provider = "rhel_lightspeed"
    /\ now = 0
    /\ issued = 0
    /\ IdleChunks
    /\ IdleRequest
    /\ IdleResponse
    /\ IdleGateway
    /\ IdleErrors
    /\ IdleCli
    /\ IdleStartup

ConfigUnchanged ==
    UNCHANGED <<chunkVars, now, issued, provider, requestVars, responseVars,
                gatewayVars, errorVars, cliVars, startupVars>>

\* The function f without the key p
Without(f, p) == [q \in DOMAIN f \ {p} |-> f[q]]

\* An error returned with `?` before the rename: the NamedTempFile is
\* dropped, which deletes the temporary file, and lock_file is dropped, which
\* closes the descriptor and with it releases the lock
Bail(p) ==
    /\ procs' = [procs EXCEPT ![p] = "failed"]
    /\ disk' = [disk EXCEPT !.temps = Without(@, p), !.lock_holders = @ \ {p}]

\* Lines 202-221: the directories are created and .config.lock is opened
OpenLockFile(p, ok) ==
    /\ procs[p] = "create_dirs"
    /\ IF ok THEN procs' = [procs EXCEPT ![p] = "lock"] /\ UNCHANGED disk
       ELSE Bail(p)
    /\ ConfigUnchanged

\* Lines 225-226: lock_exclusive blocks until no other process holds the
\* lock, or fails (a file system without locks)
LockExclusive(p, ok) ==
    /\ procs[p] = "lock"
    /\ IF ok
       THEN /\ disk.lock_holders = {}
            /\ procs' = [procs EXCEPT ![p] = "check"]
            /\ disk' = [disk EXCEPT !.lock_holders = @ \cup {p}]
       ELSE Bail(p)
    /\ ConfigUnchanged

\* Path::exists: true when the metadata of the path can be read. It is false
\* when there is no config.yaml, and also when there is one and reading its
\* metadata fails (stat_ok false: a symbolic link whose target is missing or
\* that loops, a permission or an input/output error)
exists(config_yaml, stat_ok) == config_yaml # None /\ stat_ok

\* Lines 229-251: if !config_yaml_path.exists() { atomic_write(..) } else { .. }
CheckExists(p, stat_ok) ==
    /\ procs[p] = "check"
    /\ procs' = [procs EXCEPT ![p] = IF ~exists(disk.config_yaml, stat_ok)
                                     THEN "create_temp"
                                     ELSE "unlock"]
    /\ UNCHANGED disk
    /\ ConfigUnchanged

\* atomic_write, lines 181-182: NamedTempFile::new_in(parent)
CreateTemp(p, ok) ==
    /\ procs[p] = "create_temp"
    /\ IF ok
       THEN /\ procs' = [procs EXCEPT ![p] = "write"]
            /\ disk' = [disk EXCEPT !.temps = [q \in DOMAIN @ \cup {p} |->
                                                  IF q = p THEN "" ELSE @[q]]]
       ELSE Bail(p)
    /\ ConfigUnchanged

\* atomic_write, line 185: write_all has written the first part
WritePart(p) ==
    /\ procs[p] = "write"
    /\ procs' = [procs EXCEPT ![p] = "write_rest"]
    /\ disk' = [disk EXCEPT !.temps[p] = PartialConfig]
    /\ ConfigUnchanged

\* atomic_write, lines 185-190: write_all finishes and flush returns
WriteRest(p, ok) ==
    /\ procs[p] = "write_rest"
    /\ IF ok
       THEN /\ procs' = [procs EXCEPT ![p] = "persist"]
            /\ disk' = [disk EXCEPT !.temps[p] = DefaultConfig]
       ELSE Bail(p)
    /\ ConfigUnchanged

\* atomic_write, lines 193-194: persist renames the temporary file onto
\* config.yaml, replacing whatever is there. When the rename fails the
\* PersistError keeps the NamedTempFile; it is still alive inside the error
\* when main exits, so the temporary file stays in the directory; the lock is
\* released with lock_file.
Persist(p, ok) ==
    /\ procs[p] = "persist"
    /\ IF ok
       THEN /\ procs' = [procs EXCEPT ![p] = "unlock"]
            /\ disk' = [disk EXCEPT !.config_yaml = Some(disk.temps[p]),
                                    !.temps = Without(@, p),
                                    !.writes = @ + 1]
       ELSE /\ procs' = [procs EXCEPT ![p] = "failed"]
            /\ disk' = [disk EXCEPT !.lock_holders = @ \ {p}]
    /\ ConfigUnchanged

\* Lines 254-258: FileExt::unlock, and the function returns: Ok(()), or the
\* error of unlock, after which dropping lock_file releases the lock
Unlock(p, ok) ==
    /\ procs[p] = "unlock"
    /\ procs' = [procs EXCEPT ![p] = IF ok THEN "done" ELSE "failed"]
    /\ disk' = [disk EXCEPT !.lock_holders = @ \ {p}]
    /\ ConfigUnchanged

NextConfig ==
    \E p \in Procs :
        \/ \E ok \in BOOLEAN : OpenLockFile(p, ok)
        \/ \E ok \in BOOLEAN : LockExclusive(p, ok)
        \/ \E stat_ok \in BOOLEAN : CheckExists(p, stat_ok)
        \/ \E ok \in BOOLEAN : CreateTemp(p, ok)
        \/ WritePart(p)
        \/ \E ok \in BOOLEAN : WriteRest(p, ok)
        \/ \E ok \in BOOLEAN : Persist(p, ok)
        \/ \E ok \in BOOLEAN : Unlock(p, ok)

SpecConfig == InitConfig /\ [][NextConfig]_vars

-----------------------------------------------------------------------------
(* SpecCli: one run of the c command, main of crates/cli/src/main.rs, on
   every argument list of the bound. The run is process 1; a second c
   process runs ensure_goose_config_files on the same directory beside it *)

\* The c process whose run is followed, and the other one, of which only
\* ensure_goose_config_files is followed
Self == 1
Other == 2

InitCli ==
    /\ args \in ArgLists
    /\ cli = None
    /\ procs = [p \in {Self, Other} |-> IF p = Self THEN "main" ELSE "create_dirs"]
    /\ disk \in {NewDisk(None), NewDisk(Some(UserConfig))}
    /\ provider = "rhel_lightspeed"
    /\ now = 0
    /\ issued = 0
    /\ IdleChunks
    /\ IdleRequest
    /\ IdleResponse
    /\ IdleGateway
    /\ IdleErrors
    /\ IdleStartup

CliUnchanged ==
    UNCHANGED <<chunkVars, now, issued, provider, requestVars, responseVars,
                gatewayVars, errorVars, args, startupVars>>

\* exit(code): the run ends with what main returns in the environment env
Exit(env) ==
    /\ cli' = Some(main(args, env))
    /\ procs' = [procs EXCEPT ![Self] = "exited"]

\* The argument list leaves main before ensure_goose_config_files: help, a
\* goose subcommand, or arguments that validate_args refuses (lines 359-378)
ExitsOnArgs(argv) ==
    \/ argv = <<>>
    \/ argv[1] = Str("-h")
    \/ argv[1] = Str("--help")
    \/ is_goose_subcommand(argv[1])
    \/ ~validate_args(argv)

\* Lines 355-378: the checks of the arguments
CheckArgs ==
    /\ procs[Self] = "main"
    /\ IF ExitsOnArgs(args)
       THEN (\E env \in Environments : Exit(env)) /\ UNCHANGED disk
       ELSE procs' = [procs EXCEPT ![Self] = "create_dirs"] /\ UNCHANGED <<cli, disk>>
    /\ CliUnchanged

\* Line 381: one step of ensure_goose_config_files in the process p
EnsureConfigStep(p) ==
    \/ \E ok \in BOOLEAN : OpenLockFile(p, ok)
    \/ \E ok \in BOOLEAN : LockExclusive(p, ok)
    \/ \E stat_ok \in BOOLEAN : CheckExists(p, stat_ok)
    \/ \E ok \in BOOLEAN : CreateTemp(p, ok)
    \/ WritePart(p)
    \/ \E ok \in BOOLEAN : WriteRest(p, ok)
    \/ \E ok \in BOOLEAN : Persist(p, ok)
    \/ \E ok \in BOOLEAN : Unlock(p, ok)

\* Lines 381-386: ensure_goose_config_files returned an error
ConfigFailed ==
    /\ procs[Self] = "failed"
    /\ \E env \in Environments : ~env.config_ok /\ Exit(env)
    /\ UNCHANGED disk
    /\ CliUnchanged

\* Lines 389-399: find_goose
FindGoose(goose) ==
    /\ procs[Self] = "done"
    /\ IF IsSome(goose)
       THEN procs' = [procs EXCEPT ![Self] = "spawn"] /\ UNCHANGED cli
       ELSE \E env \in Environments :
                env.config_ok /\ env.goose = goose /\ Exit(env)
    /\ UNCHANGED disk
    /\ CliUnchanged

\* Lines 404-420 and 442-448: cmd.spawn()
Spawn(ok) ==
    /\ procs[Self] = "spawn"
    /\ IF ok
       THEN procs' = [procs EXCEPT ![Self] = "wait"] /\ UNCHANGED cli
       ELSE \E env \in Environments :
                env.config_ok /\ IsSome(env.goose) /\ ~env.spawn_ok /\ Exit(env)
    /\ UNCHANGED disk
    /\ CliUnchanged

\* Lines 429-440: child.wait() returns the status of goose, or fails
Wait(ok, status) ==
    /\ procs[Self] = "wait"
    /\ \E env \in Environments :
           /\ env.config_ok /\ IsSome(env.goose) /\ env.spawn_ok
           /\ env.wait_ok = ok /\ env.status = status
           /\ Exit(env)
    /\ UNCHANGED disk
    /\ CliUnchanged

NextCli ==
    \/ CheckArgs
    \/ \E p \in {Self, Other} : EnsureConfigStep(p)
    \/ ConfigFailed
    \/ \E goose \in {None, Some("/usr/bin/goose")} : FindGoose(goose)
    \/ \E ok \in BOOLEAN : Spawn(ok)
    \/ \E ok \in BOOLEAN, status \in Statuses : Wait(ok, status)

SpecCli == InitCli /\ [][NextCli]_vars

-----------------------------------------------------------------------------
(* Claims about the streaming engine (SpecChunks) *)

\* The contents of the chunks' deltas, concatenated in emission order
RECURSIVE ContentDeltas(_)
ContentDeltas(chunks) ==
    IF chunks = <<>> THEN <<>>
    ELSE (IF IsSome(Head(chunks).content) THEN Unwrap(Head(chunks).content) ELSE <<>>)
         \o ContentDeltas(Tail(chunks))

\* Every word of the text, in order, each followed by one space
RECURSIVE WordsWithSpaces(_)
WordsWithSpaces(ws) ==
    IF ws = <<>> THEN <<>> ELSE Head(ws) \o Str(" ") \o WordsWithSpaces(Tail(ws))

WordCount == Len(split_whitespace(text))

\* C1: for a text of N >= 2 words, the content deltas of the whole chunk
\* sequence, concatenated in emission order, are the words of the text in
\* order, each followed by one space.
C1_AllWordsStreamed ==
    (ended /\ WordCount >= 2)
        => ContentDeltas(emitted) = WordsWithSpaces(split_whitespace(text))

\* C2: the stream yields exactly 2 chunks for a text of one word and exactly
\* N + 1 chunks for a text of N >= 2 words, and then it ends: it never yields
\* more, and when it has ended it has yielded that many.
C2_ChunkCount ==
    (stream # NoStream /\ WordCount >= 1)
        => /\ Len(emitted) <= WordCount + 1
           /\ ended => Len(emitted) = (IF WordCount = 1 THEN 2 ELSE WordCount + 1)

C2_Witness == ended /\ WordCount = 3 /\ Len(emitted) = 4

\* C3: for every text, the empty and the whitespace-only ones included, the
\* sequence ends with a terminal chunk (empty delta, finish_reason "stop")
\* that is another chunk than the initial role chunk.
C3_TerminalChunk ==
    ended => /\ Len(emitted) >= 2
             /\ emitted[Len(emitted)].role = None
             /\ emitted[Len(emitted)].content = None
             /\ emitted[Len(emitted)].finish_reason = Some("stop")

\* C19: for a text of N words, the chunk of interior step i (1 <= i <= N-1)
\* has as delta content the i-th word of the text, words counted from 1,
\* followed by one space, and neither role nor finish_reason.
C19_InteriorWord ==
    \A i \in 1..(WordCount - 1) :
        Len(emitted) >= i + 1
            => /\ emitted[i + 1].content = Some(split_whitespace(text)[i] \o Str(" "))
               /\ emitted[i + 1].role = None
               /\ emitted[i + 1].finish_reason = None

\* C26: in every emitted chunk sequence no delta carries both a role and a
\* content; the role "assistant" appears only in the first chunk, which has
\* no content; and finish_reason is populated on no chunk but the terminal
\* one, the chunk of step total_chunks.
C26_ExclusiveDelta ==
    \A i \in 1..Len(emitted) :
        /\ ~(emitted[i].role # None /\ emitted[i].content # None)
        /\ emitted[i].role # None
              => i = 1 /\ emitted[i].role = Some("assistant") /\ emitted[i].content = None
        /\ i = 1 => emitted[i].role = Some("assistant")
        /\ emitted[i].finish_reason # None => i = stream.total_chunks + 1 /\ i > 1

C26_Witness ==
    /\ ended
    /\ Len(emitted) >= 4
    /\ emitted[1].role # None
    /\ emitted[2].content # None
    /\ emitted[Len(emitted)].finish_reason # None

\* C27: all chunks of one sequence carry the identifier and the created
\* timestamp the stream fixed when it was built, whatever the clock shows
\* when a step runs; neither is recomputed later; and the chunks come out one
\* step at a time in increasing step order, each appended after the ones
\* before it.
C27_FixedStamp ==
    /\ [](\A i \in 1..Len(emitted) :
            /\ emitted[i].id = stream.chunk_id
            /\ emitted[i].created = stream.created)
    /\ [][/\ stream # NoStream
             => /\ stream'.chunk_id = stream.chunk_id
                /\ stream'.created = stream.created
          /\ emitted' # emitted
             => /\ stream.pos = Len(emitted)
                /\ stream'.pos = stream.pos + 1
                /\ Len(emitted') = Len(emitted) + 1
                /\ SubSeq(emitted', 1, Len(emitted)) = emitted]_vars

C27_Witness ==
    /\ Len(emitted) >= 3
    /\ now > stream.created
    /\ emitted[Len(emitted)].created = stream.created

\* C28: once the stream is dropped after step k no further chunk is
\* produced, the stream does not advance, and no sleep stays registered; and
\* while it lives, a sleep is pending only for the one step the consumer has
\* polled for, the step after the chunks already handed out.
C28_DropStops ==
    /\ [](dropped # None => timer = "none")
    /\ [](stream # NoStream => stream.pos = Len(emitted))
    /\ [](timer # "none"
            => /\ stream # NoStream
               /\ stream.pos > 0
               /\ stream.pos <= stream.total_chunks)
    /\ [][dropped # None
            => /\ emitted' = emitted
               /\ stream' = stream
               /\ ended' = ended
               /\ dropped' = dropped]_vars

C28_Witness ==
    /\ dropped # None
    /\ dropped[1].timer = "armed"
    /\ dropped[1].step >= 2
    /\ dropped[1].step < stream.total_chunks
    /\ Len(emitted) = dropped[1].step
    /\ now > stream.created

-----------------------------------------------------------------------------
(* Claims about the provider variants (SpecRequest, SpecResponse) *)

UserPositions(messages) == {i \in DOMAIN messages : messages[i].role = "user"}

ExpectedQuestion(messages) ==
    IF UserPositions(messages) = {} THEN Str("")
    ELSE messages[CHOOSE i \in UserPositions(messages) :
                      \A j \in UserPositions(messages) : j <= i].content

\* C4: the field-remapping transform_request sets "question" to the content
\* of the last message whose role is exactly "user", or to "" when there is
\* none, whatever other messages come before or after it.
C4_LastUserQuestion ==
    (provider = "rhel_lightspeed" /\ IsSome(backend_request))
        => Get(Unwrap(backend_request), "question")
               = Some(JStr(ExpectedQuestion(request.messages)))

C4_Witness ==
    /\ provider = "rhel_lightspeed"
    /\ IsSome(backend_request)
    /\ Len(request.messages) = 3
    /\ request.messages[1] = Message("user", Str("a"), None, None)
    /\ request.messages[2] = Message("user", Str("b"), None, None)
    /\ request.messages[3].role = "User"
    /\ Get(Unwrap(backend_request), "question") = Some(JStr(Str("b")))

\* The message at position i of the payload's "messages" has the role, the
\* content and the name of the request's message at position i
SameMessage(out, messages, i) ==
    LET sent == Unwrap(Get(out, "messages")).a[i]
    IN /\ Get(sent, "role") = Some(JStr(messages[i].role))
       /\ Get(sent, "content") = Some(JStr(messages[i].content))
       /\ IsSome(messages[i].name) => Get(sent, "name") = Some(JStr(Unwrap(messages[i].name)))

\* C11: the pass-through transform_request yields a payload in which every
\* populated field of the request appears with the same value: model, each
\* message in its original order, the sampling parameters, the stop list,
\* user, the stream flag and every entry of the catch-all map.
C11_FieldsPreserved ==
    (provider = "lightspeed_core" /\ IsSome(backend_request))
        => LET out == Unwrap(backend_request)
           IN /\ Get(out, "model") = Some(JStr(request.model))
              /\ IsSome(Get(out, "messages"))
              /\ Unwrap(Get(out, "messages")).t = "arr"
              /\ Len(Unwrap(Get(out, "messages")).a) = Len(request.messages)
              /\ \A i \in DOMAIN request.messages : SameMessage(out, request.messages, i)
              /\ \A f \in {"temperature", "top_p", "presence_penalty", "frequency_penalty"} :
                     IsSome(request[f]) => Get(out, f) = Some(JFloat(Unwrap(request[f])))
              /\ \A f \in {"n", "max_tokens"} :
                     IsSome(request[f]) => Get(out, f) = Some(JNum(Unwrap(request[f])))
              /\ IsSome(request.stop)
                     => Get(out, "stop")
                            = Some(JArr([i \in DOMAIN Unwrap(request.stop) |->
                                            JStr(Unwrap(request.stop)[i])]))
              /\ IsSome(request.user) => Get(out, "user") = Some(JStr(Unwrap(request.user)))
              /\ IsSome(request.stream)
                     => Get(out, "stream") = Some(JBool(Unwrap(request.stream)))
              /\ \A e \in request.extra : Get(out, e[1]) = Some(e[2])

\* The declared fields of ChatCompletionRequest that are Options
OptionalRequestFields ==
    {RequestFields[i] : i \in DOMAIN RequestFields} \ {"model", "messages"}

\* C29: the payload the pass-through variant forwards has no member for an
\* optional field of the request that is absent (no explicit null), and no
\* "name" member for a message without a name.
C29_AbsentOmitted ==
    (provider = "lightspeed_core" /\ IsSome(backend_request))
        => LET out == Unwrap(backend_request)
           IN /\ \A f \in OptionalRequestFields :
                     (request[f] = None /\ \A e \in request.extra : e[1] # f)
                         => Get(out, f) = None
              /\ \A i \in DOMAIN request.messages :
                     request.messages[i].name = None
                         => Get(Unwrap(Get(out, "messages")).a[i], "name") = None

\* C16: the payload of the field-remapping transform_request has exactly one
\* key, "question", whatever else the request holds (model, earlier messages,
\* sampling parameters, tools, catch-all entries).
C16_OnlyQuestion ==
    (provider = "rhel_lightspeed" /\ IsSome(backend_request))
        => /\ Unwrap(backend_request).t = "obj"
           /\ DOMAIN Unwrap(backend_request).f = {"question"}

C16_Witness ==
    /\ provider = "rhel_lightspeed"
    /\ IsSome(backend_request)
    /\ Len(request.messages) = 3
    /\ IsSome(request.temperature) /\ IsSome(request.tools) /\ request.extra # {}
    /\ DOMAIN Unwrap(backend_request).f = {"question"}

\* The body has no string at data.text: data is absent, or data has no
\* member text, or that member is not a string
MissingDataText(body) ==
    \/ body.t # "obj"
    \/ "data" \notin DOMAIN body.f
    \/ body.f["data"].t # "obj"
    \/ "text" \notin DOMAIN body.f["data"].f
    \/ body.f["data"].f["text"].t # "str"

IsTransformError(res) == ~res.ok /\ res.err.variant = "TransformError"

\* C5: for a backend body without a string at data.text, the field-remapping
\* transform_response and extract_streaming_text both return a
\* TransformError, never a success.
C5_MissingTextFails ==
    (provider = "rhel_lightspeed" /\ MissingDataText(payload))
        => /\ IsSome(response_result) => IsTransformError(Unwrap(response_result))
           /\ IsSome(text_result) => IsTransformError(Unwrap(text_result))

C5_Witness ==
    /\ provider = "rhel_lightspeed"
    /\ Get(payload, "data") = Some(ObjOf({<<"text", JNum(7)>>}))
    /\ IsSome(response_result) /\ IsTransformError(Unwrap(response_result))
    /\ IsSome(text_result) /\ IsTransformError(Unwrap(text_result))

\* C12: for a backend body whose data.text is a string, the field-remapping
\* transform_response succeeds with exactly one choice: index 0, a message of
\* role "assistant" whose content is data.text unchanged, finish_reason "stop".
C12_SoleChoice ==
    (provider = "rhel_lightspeed" /\ ~MissingDataText(payload) /\ IsSome(response_result))
        => /\ Unwrap(response_result).ok
           /\ Len(Unwrap(response_result).value.choices) = 1
           /\ Unwrap(response_result).value.choices[1].index = Wide(0, 0)
           /\ Unwrap(response_result).value.choices[1].message.role = "assistant"
           /\ Unwrap(response_result).value.choices[1].message.content
                  = payload.f["data"].f["text"].s
           /\ Unwrap(response_result).value.choices[1].finish_reason = Some("stop")

C12_Witness ==
    /\ provider = "rhel_lightspeed"
    /\ Get(payload, "data") = Some(ObjOf({<<"text", JStr(Str("ab ab"))>>}))
    /\ IsSome(response_result)
    /\ Unwrap(response_result).ok
    /\ Unwrap(response_result).value.choices[1].message.content = Str("ab ab")

\* C13: when the backend body has no usage member, the field-remapping
\* transform_response sets prompt_tokens = 0, completion_tokens to the length
\* of the text divided by 4 and rounded up, and total_tokens to their sum.
C13_EstimatedUsage ==
    (/\ provider = "rhel_lightspeed"
     /\ ~MissingDataText(payload)
     /\ Get(payload, "usage") = None
     /\ IsSome(response_result))
        => LET len == Utf8Len(payload.f["data"].f["text"].s)
               usage == Unwrap(response_result).value.usage
           IN /\ usage.prompt_tokens = Wide(0, 0)
              /\ usage.completion_tokens = Wide(0, (len + 3) \div 4)
              /\ usage.total_tokens = Wide(0, (len + 3) \div 4)

\* The three counts of the body's usage member are non-negative integers
SuppliesCounts(body) ==
    /\ Get(body, "usage") # None
    /\ \A key \in {"prompt_tokens", "completion_tokens", "total_tokens"} :
           /\ Get(body.f["usage"], key) # None
           /\ as_u64(body.f["usage"].f[key]) # None

\* C14: when the backend body supplies the three counts as non-negative
\* integers, the usage of the response holds exactly those three values, the
\* ones above 2^32 - 1 included.
C14_UsageVerbatim ==
    (/\ provider = "rhel_lightspeed"
     /\ ~MissingDataText(payload)
     /\ SuppliesCounts(payload)
     /\ IsSome(response_result))
        => \A key \in {"prompt_tokens", "completion_tokens", "total_tokens"} :
               Unwrap(response_result).value.usage[key]
                   = Unwrap(as_u64(payload.f["usage"].f[key]))

\* C18: under either variant, extract_streaming_text fails exactly when
\* transform_response fails on the same backend body.
C18_SameFailures ==
    (IsSome(response_result) /\ IsSome(text_result))
        => (Unwrap(response_result).ok <=> Unwrap(text_result).ok)

\* C23: under either variant, every response transform_response returns as
\* a success has exactly one choice, with index 0 and a finish_reason.
C23_OneFinishedChoice ==
    (IsSome(response_result) /\ Unwrap(response_result).ok)
        => LET choices == Unwrap(response_result).value.choices
           IN /\ Len(choices) = 1
              /\ choices[1].index = Wide(0, 0)
              /\ choices[1].finish_reason # None

\* C24: under either variant, the model of a successful response is the
\* model identifier handed to transform_response, the inbound request's.
C24_ModelEchoed ==
    (IsSome(response_result) /\ Unwrap(response_result).ok)
        => Unwrap(response_result).value.model = ModelName

\* The body has no total_tokens of its own: no usage member, or a usage
\* member without the key
LacksTotal(body) ==
    \/ Get(body, "usage") = None
    \/ Get(Unwrap(Get(body, "usage")), "total_tokens") = None

\* C25: when the backend body does not supply total_tokens, the usage of the
\* field-remapping variant's response has total_tokens = prompt_tokens +
\* completion_tokens.
C25_TotalIsSum ==
    (/\ provider = "rhel_lightspeed"
     /\ LacksTotal(payload)
     /\ IsSome(response_result)
     /\ Unwrap(response_result).ok)
        => LET usage == Unwrap(response_result).value.usage
           IN usage.total_tokens = U32Add(usage.prompt_tokens, usage.completion_tokens)

-----------------------------------------------------------------------------
(* Claims about the gateway (Spec) and the error mapping (SpecErrors) *)

\* C6: on both paths, a backend call that does not complete within the
\* configured timeout is answered as AppError::TimeoutError: status 504 with
\* the type tag "timeout_error".
C6_TimeoutSurfaced ==
    \A r \in DOMAIN reqs :
        (reqs[r].pc = "done" /\ reqs[r].outcome.kind = "timeout")
            => /\ reqs[r].http.status = 504
               /\ reqs[r].http.body.error.type = "timeout_error"

\* C7: two AppError values of the same variant that differ only in their
\* detail get the same status and the same body, so that the message of a
\* failure body depends on the variant alone and carries nothing of what the
\* backend sent.
C7_SanitizedBody ==
    \A i, j \in DOMAIN failures :
        (IsSome(replies[i]) /\ IsSome(replies[j])
             /\ failures[i].variant = failures[j].variant)
            => /\ Unwrap(replies[i]).status = Unwrap(replies[j]).status
               /\ Unwrap(replies[i]).body = Unwrap(replies[j]).body

C7_Witness ==
    /\ failures[1].variant = "TransformError"
    /\ failures[2].variant = "TransformError"
    /\ failures[1].detail # failures[2].detail
    /\ failures[1].detail.quoted = ObjOf({<<"error", JStr("something went wrong")>>})
    /\ IsSome(replies[1]) /\ IsSome(replies[2])

StatusOf(variant) ==
    CASE variant = "BackendError" -> 502
      [] variant = "TransformError" -> 500
      [] variant = "TimeoutError" -> 504
      [] variant = "InternalError" -> 500

\* C8: BackendError is answered with 502, TransformError with 500,
\* TimeoutError with 504 and InternalError with 500, and every failure body
\* is an object holding an error message and a type tag.
C8_StatusMapping ==
    \A i \in DOMAIN failures :
        IsSome(replies[i])
            => /\ Unwrap(replies[i]).status = StatusOf(failures[i].variant)
               /\ DOMAIN Unwrap(replies[i]).body = {"error"}
               /\ DOMAIN Unwrap(replies[i]).body.error = {"message", "type"}
               /\ Unwrap(replies[i]).body.error.type
                      \in {"backend_error", "transform_error", "timeout_error",
                           "internal_error"}

C8_Witness ==
    /\ failures[1].variant = "BackendError"
    /\ IsSome(replies[1]) /\ Unwrap(replies[1]).status = 502
    /\ failures[2].variant = "InternalError"
    /\ IsSome(replies[2]) /\ Unwrap(replies[2]).status = 500

\* C9: a request the limiter did not admit, in particular one it rejected
\* because the burst was exhausted, never causes a POST to the backend.
C9_NoPostWhenRejected ==
    \A r \in DOMAIN reqs : reqs[r].limiter # "admitted" => reqs[r].posts = 0

C9_Witness ==
    \E r1, r2 \in DOMAIN reqs :
        /\ reqs[r1].route = ChatRoute
        /\ reqs[r1].limiter = "rejected"
        /\ reqs[r1].http.status = 429
        /\ reqs[r1].posts = 0
        /\ reqs[r2].limiter = "admitted"
        /\ reqs[r2].posts = 1

\* C10: two responses (ChatResponse or chunk sequence) the gateway returned
\* in one process never carry the same identifier, under either variant.
C10_UniqueIds ==
    \A r1, r2 \in DOMAIN reqs :
        (/\ r1 # r2
         /\ reqs[r1].route = ChatRoute /\ reqs[r1].http.status = 200
         /\ reqs[r2].route = ChatRoute /\ reqs[r2].http.status = 200)
            => reqs[r1].http.id # reqs[r2].http.id

\* The chat-completion requests that reached their handler and were answered
Answered == {r \in DOMAIN reqs : reqs[r].pc = "done" /\ reqs[r].path # "none"}

\* C15: the chat-completion handler dispatches by the stream flag. With
\* stream true the streaming path runs, and a success is an event stream of
\* the chunks built from the text extract_streaming_text returned; with
\* stream false or absent the non-streaming path runs, and a success is the
\* one ChatResponse of handle_request. No request runs both paths.
C15_DispatchByFlag ==
    \A r \in Answered :
        /\ reqs[r].path = "streaming" <=> reqs[r].stream = Some(TRUE)
        /\ reqs[r].path = "non_streaming" <=> reqs[r].stream \in {None, Some(FALSE)}
        /\ reqs[r].posts = 1
        /\ reqs[r].path = "streaming"
              => /\ \A i \in DOMAIN reqs[r].calls : reqs[r].calls[i] # "transform_response"
                 /\ reqs[r].http.status = 200
                       => /\ reqs[r].http.kind = "sse"
                          /\ Unwrap(reqs[r].result).value.words
                                 = words_of(extract_streaming_text(
                                       provider, reqs[r].outcome.payload).value)
                          /\ reqs[r].http.chunks = AllChunks(Unwrap(reqs[r].result).value)
        /\ reqs[r].path = "non_streaming"
              => /\ \A i \in DOMAIN reqs[r].calls : reqs[r].calls[i] # "extract_streaming_text"
                 /\ reqs[r].http.status = 200
                       => /\ reqs[r].http.kind = "json"
                          /\ reqs[r].http.body = Unwrap(reqs[r].result).value

C15_Witness ==
    \E r1, r2 \in Answered :
        /\ reqs[r1].stream = Some(TRUE) /\ reqs[r1].http.status = 200
        /\ reqs[r1].http.kind = "sse"
        /\ reqs[r2].stream = None /\ reqs[r2].http.status = 200
        /\ reqs[r2].http.kind = "json"

\* The result without the identifier and the timestamp of a success
Undated(res) ==
    IF res.ok THEN Ok([res.value EXCEPT !.id = "", !.created = 0]) ELSE res

\* C20: handle_request follows its error flow under either variant. A
\* non-success status gives BackendError and transform_response is not
\* invoked; a success status with a body that is not JSON gives BackendError;
\* otherwise the result is what transform_response returns for the body, its
\* TransformError included.
C20_ErrorFlow ==
    \A r \in Answered :
        reqs[r].path = "non_streaming"
            => LET res == Unwrap(reqs[r].result)
                   outcome == reqs[r].outcome
               IN /\ outcome.kind = "status"
                        => /\ ~res.ok /\ res.err.variant = "BackendError"
                           /\ \A i \in DOMAIN reqs[r].calls :
                                  reqs[r].calls[i] # "transform_response"
                  /\ outcome.kind = "malformed"
                        => ~res.ok /\ res.err.variant = "BackendError"
                  /\ outcome.kind = "json"
                        => Undated(res)
                               = Undated(transform_response(provider, outcome.payload,
                                                            ModelName, 0, 0))

C20_Witness ==
    \E r1, r2 \in Answered :
        /\ reqs[r1].path = "non_streaming" /\ reqs[r1].outcome.kind = "status"
        /\ reqs[r1].http.status = 502
        /\ reqs[r2].path = "non_streaming" /\ reqs[r2].outcome.kind = "json"
        /\ ~Unwrap(reqs[r2].result).ok
        /\ Unwrap(reqs[r2].result).err.variant = "TransformError"
        /\ reqs[r2].http.status = 500

\* C21: every chat-completion request, streaming or not, causes at most one
\* POST to the backend, and once its call has failed (send error, non-success
\* status, malformed body, transform error, timeout) or succeeded, no further
\* POST is made for it.
C21_SingleAttempt ==
    [][\A r \in DOMAIN reqs :
          /\ reqs'[r].posts <= 1
          /\ reqs[r].outcome # NoOutcome => reqs'[r].posts = reqs[r].posts]_vars

C21_Witness ==
    \E r1, r2 \in Answered :
        /\ reqs[r1].path = "streaming" /\ reqs[r1].outcome.kind = "timeout"
        /\ reqs[r1].posts = 1
        /\ reqs[r2].path = "non_streaming" /\ reqs[r2].outcome.kind = "json"
        /\ ~Unwrap(reqs[r2].result).ok
        /\ reqs[r2].posts = 1

-----------------------------------------------------------------------------
(* Claims about the gateway's startup (SpecStartup) *)

\* The five things main sets up before it binds all succeed in this environment
StartupPrerequisites(env) ==
    /\ env.config = "ok"
    /\ env.cert_file = "pem" /\ env.key_file = "pem" /\ env.proxies # "bad"
    /\ env.provider_name \in Providers
    /\ \E i \in DOMAIN env.origins : IsHeaderValue(env.origins[i])
    /\ env.rate_limit_per_second > 0 /\ env.rate_limit_burst > 0

\* C22: the listening socket is bound only in an environment where the
\* configuration loaded, the authenticated client was built, the provider is
\* a known one, at least one CORS origin is valid and the rate limiter was
\* configured; where one of them fails, the process exits with status 1 at
\* that step and never binds.
C22_BindAfterSetup ==
    /\ [](boot.bound => StartupPrerequisites(boot.env))
    /\ [](~StartupPrerequisites(boot.env)
            => /\ boot.pc \notin {"bind", "serve"}
               /\ boot.pc = "exited" => boot.exit = Some(1))
    /\ [][boot.pc = "exited" => boot'.bound = boot.bound]_vars

C22_Witness ==
    /\ boot.bound
    /\ Len(boot.env.origins) = 2
    /\ ~IsHeaderValue(boot.env.origins[1])
    /\ boot.env.provider_name = "lightspeed_core"

-----------------------------------------------------------------------------
(* Claims about the goose configuration files (SpecConfig) *)

\* The processes between taking the lock and giving it up
InSection == {p \in Procs : procs[p] \in {"check", "create_temp", "write",
                                          "write_rest", "persist", "unlock"}}

\* C30: with several c processes in ensure_goose_config_files, at most one
\* is between lock and unlock at a time; config.yaml is renamed into place at
\* most once; a config.yaml that exists is never replaced; and config.yaml
\* never holds a partly written content.
C30_LockedCreate ==
    /\ [](Cardinality(InSection) <= 1)
    /\ [](disk.writes <= 1)
    /\ [](disk.config_yaml \in {None, Some(DefaultConfig), Some(UserConfig)})
    /\ [][disk.config_yaml # None => disk'.config_yaml = disk.config_yaml]_vars

-----------------------------------------------------------------------------
(* Claims about the c command (SpecCli) *)

\* The run's environment let goose run: the run did not end with one of the
\* exit codes of a failed setup
SetupFailed(run) ==
    ~IsSome(run.goose_args) /\ run.exit_code \in {EX_SOFTWARE, EX_CANTCREAT, EX_UNAVAILABLE}

\* C17: the c command maps its arguments as its header states: -h runs goose
\* with --help, -i runs goose session, a query runs goose run -t followed by
\* the query's arguments as separate arguments, and a first argument that is
\* a goose subcommand is passed to goose unchanged.
C17_HeaderMapping ==
    (IsSome(cli) /\ args # <<>> /\ ~SetupFailed(Unwrap(cli)))
        => /\ args[1] = Str("-h") => Unwrap(cli).goose_args = Some(<<Str("--help")>>)
           /\ args[1] = Str("-i") => Unwrap(cli).goose_args = Some(<<Str("session")>>)
           /\ is_goose_subcommand(args[1]) => Unwrap(cli).goose_args = Some(args)
           /\ (args[1] \notin {Str("-h"), Str("--help"), Str("-i"), Str("--interactive")}
                  /\ ~is_goose_subcommand(args[1]))
                 => Unwrap(cli).goose_args = Some(<<Str("run"), Str("-t")>> \o args)

====
